---- MODULE Spec2Model ----
(***************************************************************************)
(* A model of serde-annotate: the Integer container (src/src/integer.rs),  *)
(* the Document tree (src/src/document.rs), the permissive parser's        *)
(* post-processor (src/src/relax.rs), the annotated serializer             *)
(* (src/src/ser.rs), the JSON-family emitter (src/src/json.rs) and the     *)
(* deserializer (src/src/de.rs).                                           *)
(*                                                                         *)
(* Text is a sequence of one-character strings.  Integer widths are scaled *)
(* down (NarrowBits, WideBits) so that every value of every modelled type  *)
(* can be enumerated; WideBits plays the role of the 128-bit types, the    *)
(* widest the code has.                                                    *)
(***************************************************************************)
EXTENDS Integers, Sequences, FiniteSets

VARIABLES
    istage,     \* Integer pipeline: position of the caller
    int,        \* Integer pipeline: the current Int (or NoInt)
    itext,      \* Integer pipeline: the last text produced / parsed
    iorig,      \* Integer pipeline: what the pipeline started from
    iarg,       \* Integer pipeline: the Option<&Base> last passed to format
    iprim,      \* Integer pipeline: the primitive the Int was converted to
    doc,        \* Document queries: the Document under construction
    dop,        \* Document queries: the last operation applied to doc
    dres,       \* Document queries: what that operation returned
    tstage,     \* Text pipeline: position of the caller
    tsrc,       \* Text pipeline: the source text, as the pair of its value
    tflags,     \* Text pipeline: the preset of the parser
    tchecks,    \* Text pipeline: whether the build has overflow checks
    tval,       \* Text pipeline: the user value being serialized
    tdoc,       \* Text pipeline: the Document serialize returned
    tdialect,   \* Text pipeline: the emitter the text was produced by
    tres,       \* Text pipeline: the Result of the parser
    tback,      \* Text pipeline: the Result of the deserializer
    sstage,     \* Serializer pipeline: position of the caller
    sval,       \* Serializer pipeline: the user value, or the type read into
    sdrv,       \* Serializer pipeline: the serde driver in use
    sres,       \* Serializer pipeline: the Result of the serializer
    sback,      \* Serializer pipeline: the Result of the deserializer
    hstage,     \* Bytes codec: position of the caller
    hdata,      \* Bytes codec: the bytes given to to_string
    hformat,    \* Bytes codec: the BytesFormat given to to_string
    htext,      \* Bytes codec: the text given to from_str
    hres,       \* Bytes codec: the Result of from_str
    estage,     \* Emitter: position of the caller
    ejson,      \* Emitter: the Json or Yaml builder, its Document included
    eout,       \* Emitter: the Result of writing the builder out
    pstage,     \* Path iterator: position of the caller
    pdoc,       \* Path iterator: the Document iterated over
    piter,      \* Path iterator: the DocPathIter
    pout,       \* Path iterator: the items next has returned
    rpc,        \* Registry: position of every thread in Annotator::lookup
    rcell,      \* Registry: the state of the OnceCell ANNOTATORS
    rtable,     \* Registry: the HashMap in the cell or under construction
    rinv,       \* Registry: the registrations the program is linked with
    rnext,      \* Registry: how many of them the initializer has inserted
    rlock,      \* Registry: the threads that hold the Mutex
    rres,       \* Registry: what lookup returned to every thread
    rbuilds,    \* Registry: how many times the initializer has run
    mstage,     \* Map serializer: position of the caller
    mser,       \* Map serializer: the SerializeMap
    mcalls,     \* Map serializer: the calls made on it so far
    mres        \* Map serializer: the Result of end

ivars == <<istage, int, itext, iorig, iarg, iprim>>

dvars == <<doc, dop, dres>>

tvars == <<tstage, tsrc, tflags, tchecks, tval, tdoc, tdialect, tres, tback>>

svars == <<sstage, sval, sdrv, sres, sback>>

hvars == <<hstage, hdata, hformat, htext, hres>>

evars == <<estage, ejson, eout>>

pvars == <<pstage, pdoc, piter, pout>>

rvars == <<rpc, rcell, rtable, rinv, rnext, rlock, rres, rbuilds>>

mvars == <<mstage, mser, mcalls, mres>>

vars == <<istage, int, itext, iorig, iarg, iprim, doc, dop, dres,
          tstage, tsrc, tflags, tchecks, tval, tdoc, tdialect, tres, tback,
          sstage, sval, sdrv, sres, sback,
          hstage, hdata, hformat, htext, hres,
          estage, ejson, eout,
          pstage, pdoc, piter, pout,
          rpc, rcell, rtable, rinv, rnext, rlock, rres, rbuilds,
          mstage, mser, mcalls, mres>>

\* the pipelines of the serializer and of the other components
later == <<svars, hvars, evars, pvars, rvars, mvars>>

(***************************************************************************)
(* Bounds of the model.                                                    *)
(***************************************************************************)
\* width of the narrow primitive types (stands for u8/i8 .. u64/i64)
NarrowBits == 5
\* width of the widest primitive types (stands for u128/i128)
WideBits == 7
\* longest digit string of an input literal over the mixed digit alphabet
MaxDigits == 2
\* deepest nesting of Compact / Fragment wrappers in a hand-built Document
MaxDepth == 2
\* most children of a hand-built Fragment
MaxFrag == 3
\* most pairs inside a hand-written array or object
MaxToks == 5
\* longest string among the serialized values
MaxStr == 1
\* most elements of a serialized sequence
MaxElems == 2

(***************************************************************************)
(* Small helpers.                                                          *)
(***************************************************************************)
RECURSIVE Pow2(_)
Pow2(n) == IF n = 0 THEN 1 ELSE 2 * Pow2(n - 1)

Max(a, b) == IF a >= b THEN a ELSE b

Min(a, b) == IF a <= b THEN a ELSE b

RECURSIVE SeqsUpTo(_, _)
\* every sequence over S of length 0..n
SeqsUpTo(S, n) ==
    IF n = 0 THEN {<<>>}
    ELSE LET shorter == SeqsUpTo(S, n - 1)
         IN shorter \cup {Append(s, c) : s \in shorter, c \in S}

(***************************************************************************)
(* integer.rs: Base, IntValue, Int.                                        *)
(***************************************************************************)
Bases == {"Bin", "Oct", "Dec", "Hex"}

\* enum Base { Bin = 2, Oct = 8, Dec = 10, Hex = 16 }
Radix(base) ==
    CASE base = "Bin" -> 2
      [] base = "Oct" -> 8
      [] base = "Dec" -> 10
      [] base = "Hex" -> 16

\* The primitive types: signedness and width in bits.
U(bits) == [signed |-> FALSE, bits |-> bits]
I(bits) == [signed |-> TRUE, bits |-> bits]

IntTypes == {U(NarrowBits), U(WideBits), I(NarrowBits), I(WideBits)}

MinOf(ty) == IF ty.signed THEN -Pow2(ty.bits - 1) ELSE 0
MaxOf(ty) == IF ty.signed THEN Pow2(ty.bits - 1) - 1 ELSE Pow2(ty.bits) - 1

ValuesOf(ty) == MinOf(ty)..MaxOf(ty)

\* An IntValue: the variant (type) and the value it holds.
IntValue(ty, v) == [ty |-> ty, v |-> v]

\* `v as $t`: truncate to the width of ty and reinterpret.
WrapTo(ty, n) ==
    LET m == n % Pow2(ty.bits)
    IN IF ty.signed /\ m >= Pow2(ty.bits - 1) THEN m - Pow2(ty.bits) ELSE m

\* The raw two's-complement bit pattern of an IntValue.
Pattern(val) == val.v % Pow2(val.ty.bits)

\* IntValue::HEX
HEX == <<"0", "1", "2", "3", "4", "5", "6", "7",
         "8", "9", "A", "B", "C", "D", "E", "F">>

RECURSIVE DecDigits(_)
DecDigits(n) ==
    IF n < 10 THEN <<HEX[n + 1]>>
    ELSE Append(DecDigits(n \div 10), HEX[(n % 10) + 1])

\* <primitive>::to_string()
ToString(n) == IF n < 0 THEN <<"-">> \o DecDigits(-n) ELSE DecDigits(n)

\* const BITS: usize = 128, scaled to the widest modelled type
BITS == WideBits

\* usize::MAX: any width above BITS selects the natural width of the type
UsizeMax == BITS + 1

Shift(base) ==
    CASE base = "Bin" -> 1
      [] base = "Oct" -> 3
      [] base = "Hex" -> 4

BasePrefix(base) ==
    CASE base = "Bin" -> <<"0", "b">>
      [] base = "Oct" -> <<"0", "o">>
      [] base = "Hex" -> <<"0", "x">>

RECURSIVE ConvertLoop(_, _, _, _)
\* the digit loop of IntValue::convert: p is the remaining bit pattern
ConvertLoop(p, shift, width, buffer) ==
    LET digit == HEX[(p % Pow2(shift)) + 1]
        w == Max(width - 1, 0)
        rest == p \div Pow2(shift)
        buf == <<digit>> \o buffer
    IN IF rest = 0 /\ w = 0 THEN buf ELSE ConvertLoop(rest, shift, w, buf)

\* IntValue::convert with the requested width dropped
ConvertUnpadded(val, base, width) ==
    IF base = "Dec" THEN ToString(val.v)
    ELSE BasePrefix(base) \o ConvertLoop(Pattern(val), Shift(base), 0, <<>>)

\* IntValue::convert / IntValue::format
Convert(val, base, width) ==
    IF base = "Dec" THEN ToString(val.v)
    ELSE LET bits == val.ty.bits
             w == IF width > BITS
                  THEN CASE base = "Bin" -> bits
                         [] base = "Oct" -> (bits + 2) \div 3
                         [] base = "Hex" -> (bits + 3) \div 4
                  ELSE width
         IN BasePrefix(base) \o ConvertLoop(Pattern(val), Shift(base), w, <<>>)

\* The next wider type, which IntValue::negate moves an unsigned value to
\* (U8 -> I16, ..., U64 -> I128); the widest has nowhere to go (U128 -> I128).
NegateType(ty) ==
    IF ty.signed THEN ty
    ELSE IF ty.bits = NarrowBits THEN I(WideBits) ELSE I(ty.bits)

\* IntValue::negate.  `v as iN` reinterprets, unary minus overflows on the
\* minimum of the type: a panic with overflow checks on, a wrap without.
NegateOutcomes(val) ==
    LET ty == NegateType(val.ty)
        x == WrapTo(ty, val.v)
    IN IF x = MinOf(ty)
       THEN {[st |-> "panic", val |-> val],
             [st |-> "ok", val |-> IntValue(ty, x)]}
       ELSE {[st |-> "ok", val |-> IntValue(ty, -x)]}

\* struct Int { value, base, width }
MkInt(val, base, width) == [value |-> val, base |-> base, width |-> width]

NoInt == MkInt(IntValue(U(NarrowBits), 0), "Dec", 0)

\* Int::new_with_padding
NewWithPadding(ty, v, base, width) == MkInt(IntValue(ty, v), base, width)

\* Int::new
IntNew(ty, v, base) == NewWithPadding(ty, v, base, 0)

\* Int::new_padded
NewPadded(ty, v, base) == NewWithPadding(ty, v, base, UsizeMax)

\* Option<&Base> arguments: "None" or a base
OptBases == Bases \cup {"None"}

\* Int::format: `*base.unwrap_or(&Base::Dec)`
Format(i, optbase) ==
    Convert(i.value, IF optbase = "None" THEN "Dec" ELSE optbase, i.width)

\* impl Display for Int
IntToString(i) == Format(i, i.base)

\* impl From<Int> for $t
IntInto(i, ty) == WrapTo(ty, i.value.v)

\* char::to_digit for radix <= 16: the digit value of c, or -1
LowerHex == <<"0", "1", "2", "3", "4", "5", "6", "7",
              "8", "9", "a", "b", "c", "d", "e", "f">>

DigitOf(c) ==
    IF \E k \in 1..16 : HEX[k] = c
    THEN (CHOOSE k \in 1..16 : HEX[k] = c) - 1
    ELSE IF \E k \in 1..16 : LowerHex[k] = c
         THEN (CHOOSE k \in 1..16 : LowerHex[k] = c) - 1
         ELSE -1

RECURSIVE FoldDigits(_, _, _, _)
\* the checked multiply-and-add loop of u128::from_str_radix
FoldDigits(text, radix, acc, limit) ==
    IF text = <<>> THEN [ok |-> TRUE, v |-> acc]
    ELSE LET d == DigitOf(Head(text))
         IN IF d < 0 \/ d >= radix THEN [ok |-> FALSE, v |-> 0]
            ELSE IF acc * radix + d > limit THEN [ok |-> FALSE, v |-> 0]
            ELSE FoldDigits(Tail(text), radix, acc * radix + d, limit)

\* u128::from_str_radix (std), as called at integer.rs:232: an optional
\* leading '+', then at least one digit; no '-' for an unsigned type.
U128FromStrRadix(text, radix) ==
    LET digits == IF text # <<>> /\ Head(text) = "+" THEN Tail(text) ELSE text
    IN IF digits = <<>> THEN [ok |-> FALSE, v |-> 0]
       ELSE FoldDigits(digits, radix, 0, MaxOf(U(WideBits)))

\* str::starts_with(&[char; 2]): a char-array pattern matches when the
\* string starts with ANY ONE of the characters
StartsWithAnyOf(src, chars) == src # <<>> /\ Head(src) \in chars

\* &src[2..]; slicing past the end panics
Skip2(src) == SubSeq(src, 3, Len(src))

LowerOf(ch) == CASE ch = "b" -> "b" [] ch = "o" -> "o" [] ch = "x" -> "x"
UpperOf(ch) == CASE ch = "b" -> "B" [] ch = "o" -> "O" [] ch = "x" -> "X"

\* Int::strip_numeric_prefix: [st, text]
StripNumericPrefix(src, ch) ==
    IF StartsWithAnyOf(src, {"0", LowerOf(ch)})
       \/ StartsWithAnyOf(src, {"0", UpperOf(ch)})
    THEN IF Len(src) < 2 THEN [st |-> "panic", base |-> "Dec", text |-> src]
         ELSE [st |-> "ok", base |-> "Dec", text |-> Skip2(src)]
    ELSE [st |-> "ok", base |-> "Dec", text |-> src]

\* Int::detect_numeric_prefix
DetectNumericPrefix(src) ==
    IF Len(src) >= 2 /\ src[1] = "0"
    THEN CASE src[2] \in {"b", "B"} -> [st |-> "ok", base |-> "Bin", text |-> Skip2(src)]
           [] src[2] \in {"o", "O"} -> [st |-> "ok", base |-> "Oct", text |-> Skip2(src)]
           [] src[2] \in {"x", "X"} -> [st |-> "ok", base |-> "Hex", text |-> Skip2(src)]
           [] OTHER -> [st |-> "ok", base |-> "Dec", text |-> src]
    ELSE [st |-> "ok", base |-> "Dec", text |-> src]

\* the radix arguments the callers pass: 0 (detect), 2, 8, 10, 16
Radixes == {0, 2, 8, 10, 16}

\* Int::from_str_radix: the set of outcomes [st, int] with st one of
\* "ok", "err" (ParseIntError), "panic"
FromStrRadix(src0, radix) ==
    LET negative == src0 # <<>> /\ Head(src0) = "-"
        src == IF src0 # <<>> /\ Head(src0) \in {"-", "+"} THEN Tail(src0) ELSE src0
        bt == CASE radix = 2 -> [StripNumericPrefix(src, "b") EXCEPT !.base = "Bin"]
                [] radix = 8 -> [StripNumericPrefix(src, "o") EXCEPT !.base = "Oct"]
                [] radix = 16 -> [StripNumericPrefix(src, "x") EXCEPT !.base = "Hex"]
                [] radix = 10 -> [st |-> "ok", base |-> "Dec", text |-> src]
                [] OTHER -> DetectNumericPrefix(src)
        parsed == U128FromStrRadix(bt.text, Radix(bt.base))
        value == IntValue(U(WideBits), parsed.v)
    IN IF bt.st = "panic" THEN {[st |-> "panic", int |-> NoInt]}
       ELSE IF ~parsed.ok THEN {[st |-> "err", int |-> NoInt]}
       ELSE IF negative
            THEN {[st |-> o.st,
                   int |-> IF o.st = "ok" THEN MkInt(o.val, bt.base, Len(bt.text))
                           ELSE NoInt] : o \in NegateOutcomes(value)}
            ELSE {[st |-> "ok", int |-> MkInt(value, bt.base, Len(bt.text))]}

(***************************************************************************)
(* The Document tree (src/src/document.rs).  A node is a record: kind is   *)
(* the enum variant, text the string or comment payload, fmt the StrFormat *)
(* or CommentFormat, int the Int payload, and kids the children (the boxed *)
(* Document of a Compact is its only child).                               *)
(***************************************************************************)
Doc(kind, text, fmt, i, kids) ==
    [kind |-> kind, text |-> text, fmt |-> fmt, int |-> i, kids |-> kids]

Comment(c, f) == Doc("Comment", c, f, NoInt, <<>>)

String(s, f) == Doc("String", s, f, NoInt, <<>>)

Boolean(b) == Doc("Boolean", IF b THEN <<"t">> ELSE <<"f">>, "", NoInt, <<>>)

DocInt(i) == Doc("Int", <<>>, "", i, <<>>)

Null == Doc("Null", <<>>, "", NoInt, <<>>)

Mapping(kvs) == Doc("Mapping", <<>>, "", NoInt, kvs)

Sequence(vs) == Doc("Sequence", <<>>, "", NoInt, vs)

Compact(d) == Doc("Compact", <<>>, "", NoInt, <<d>>)

Fragment(fs) == Doc("Fragment", <<>>, "", NoInt, fs)

\* Document::Bytes: text holds the bytes, as numbers
Bytes(b) == Doc("Bytes", b, "", NoInt, <<>>)

\* Result<_, Error> of the Document queries: the references returned (one
\* for as_value, two for as_kv) or the error
DocOk(ds) == [ok |-> TRUE, err |-> "", docs |-> ds, bool |-> FALSE]

DocErr(e) == [ok |-> FALSE, err |-> e, docs |-> <<>>, bool |-> FALSE]

DocBool(b) == [ok |-> TRUE, err |-> "", docs |-> <<>>, bool |-> b]

RECURSIVE HasValue(_)
HasValue(d) ==
    CASE d.kind = "Comment" -> FALSE
      [] d.kind = "Compact" -> HasValue(d.kids[1])
      [] d.kind = "Fragment" -> \E k \in 1..Len(d.kids) : HasValue(d.kids[k])
      [] OTHER -> TRUE

\* frags.iter().filter(|f| f.has_value()).collect()
RECURSIVE FilterHasValue(_)
FilterHasValue(frags) ==
    IF frags = <<>> THEN <<>>
    ELSE IF HasValue(Head(frags))
         THEN <<Head(frags)>> \o FilterHasValue(Tail(frags))
         ELSE FilterHasValue(Tail(frags))

Fragments(d) ==
    IF d.kind = "Fragment" THEN DocOk(d.kids) ELSE DocErr("StructureError")

AsKv(d) ==
    LET frags == Fragments(d)
        kv == FilterHasValue(frags.docs)
    IN IF ~frags.ok THEN frags
       ELSE IF Len(kv) = 2 THEN DocOk(<<kv[1], kv[2]>>)
       ELSE DocErr("StructureError")

\* an as_value that returns the first value-bearing child even when others follow
AsValueFirst(d) ==
    CASE d.kind = "Comment" -> DocErr("StructureError")
      [] d.kind = "Fragment" ->
            LET values == FilterHasValue(d.kids)
            IN IF Len(values) >= 1 THEN DocOk(<<values[1]>>)
               ELSE DocErr("StructureError")
      [] OTHER -> DocOk(<<d>>)

RECURSIVE AsValue(_)
AsValue(d) ==
    CASE d.kind = "Comment" -> DocErr("StructureError")
      [] d.kind = "Compact" -> AsValue(d.kids[1])
      [] d.kind = "Fragment" ->
            LET values == FilterHasValue(d.kids)
            IN IF Len(values) = 1 THEN DocOk(<<values[1]>>)
               ELSE DocErr("StructureError")
      [] OTHER -> DocOk(<<d>>)

\* Document::last_value_index
LastValueIndex(sequence) ==
    LET S == {k \in 1..Len(sequence) : HasValue(sequence[k])}
    IN IF S = {} THEN Len(sequence)
       ELSE (CHOOSE k \in S : \A j \in S : j <= k) - 1

RECURSIVE Depth(_)
Depth(d) ==
    IF d.kids = <<>> THEN 0
    ELSE LET S == {Depth(d.kids[k]) : k \in 1..Len(d.kids)}
         IN 1 + CHOOSE m \in S : \A x \in S : x <= m

(***************************************************************************)
(* The permissive parser's post-processor (src/src/relax.rs).  The grammar *)
(* hands it a tree of pairs; a pair is a record: rule is the grammar rule, *)
(* text the matched source text, line / eline the source lines of the      *)
(* first and of the last character of its span, inner the pairs inside.    *)
(***************************************************************************)
Pair(rule, text, line, eline, inner) ==
    [rule |-> rule, text |-> text, line |-> line, eline |-> eline, inner |-> inner]

FlagNames ==
    {"comma_trailing", "comma_optional", "number_bin", "number_hex",
     "number_oct", "number_plus", "number_lax_dec_point",
     "string_single_quote", "string_unquoted", "string_ident",
     "string_json5_multiline", "string_hjson_multiline",
     "comment_slash", "comment_hash", "comment_block"}

\* impl Default for Relax
RelaxDefault == [f \in FlagNames |-> TRUE]

\* Relax::json
RelaxJson == [f \in FlagNames |-> FALSE]

\* Relax::json5
RelaxJson5 ==
    [f \in FlagNames |->
        f \notin {"comma_optional", "string_unquoted", "string_hjson_multiline",
                  "comment_hash", "number_bin", "number_oct"}]

\* Relax::hjson
RelaxHjson ==
    [f \in FlagNames |->
        f \notin {"string_json5_multiline", "number_bin", "number_hex",
                  "number_oct", "number_plus", "number_lax_dec_point"}]

PresetNames == {"json", "json5", "hjson", "default"}

\* a Relax whose public field comma_trailing the caller has set:
\* Relax { comma_trailing: false, ..Relax::default() }
RelaxNoTrailing == [RelaxDefault EXCEPT !["comma_trailing"] = FALSE]

Preset(name) ==
    CASE name = "json" -> RelaxJson
      [] name = "json5" -> RelaxJson5
      [] name = "hjson" -> RelaxHjson
      [] name = "default" -> RelaxDefault
      [] name = "no_trailing" -> RelaxNoTrailing

\* Result<Document, Error>: err is the SyntaxError message, "EscapeError",
\* "Unknown", or "panic" when the call does not return
POk(d) == [ok |-> TRUE, err |-> "", doc |-> d]

PErr(e) == [ok |-> FALSE, err |-> e, doc |-> Null]

BS == "\\"

NL == "\n"

TAB == "\t"

DQ == "\""

SQ == "'"

CR == "\r"

FF == "\f"

\* the characters U+0008 (backspace), U+0001 and U+001F, which have no
\* escape in a TLA+ string, are written out by name
BSP == "<U+0008>"

SOH == "<U+0001>"

US == "<U+001F>"

\* the scalar values of the control characters of the model
ControlCode ==
    [c \in {SOH, BSP, TAB, NL, FF, CR, US} |->
        CASE c = SOH -> 1 [] c = BSP -> 8 [] c = TAB -> 9 [] c = NL -> 10
          [] c = FF -> 12 [] c = CR -> 13 [] c = US -> 31]

\* char::try_from(v), for the scalar values of the control characters
CharTryFrom(v) == CHOOSE c \in DOMAIN ControlCode : ControlCode[c] = v

StartsWith(s, pre) == Len(s) >= Len(pre) /\ SubSeq(s, 1, Len(pre)) = pre

EndsWith(s, suf) == Len(s) >= Len(suf) /\ SubSeq(s, Len(s) - Len(suf) + 1, Len(s)) = suf

Contains(s, sub) == \E k \in 1..(Len(s) - Len(sub) + 1) : SubSeq(s, k, k + Len(sub) - 1) = sub

\* Relax::unescape over the escapes the model's texts use; a \u sequence
\* names a control character, and \x sequences do not occur in them
RECURSIVE Unescape(_)
Unescape(text) ==
    IF text = <<>> THEN [ok |-> TRUE, s |-> <<>>]
    ELSE IF Head(text) = BS
         THEN LET ch == text[2]
                  rest == Unescape(SubSeq(text, 3, Len(text)))
              IN IF ch \in {DQ, "/", BS, SQ, NL}
                 THEN [rest EXCEPT !.s = <<ch>> \o rest.s]
                 ELSE IF ch = "n" THEN [rest EXCEPT !.s = <<NL>> \o rest.s]
                 ELSE IF ch = "t" THEN [rest EXCEPT !.s = <<TAB>> \o rest.s]
                 ELSE IF ch = "b" THEN [rest EXCEPT !.s = <<BSP>> \o rest.s]
                 ELSE IF ch = "f" THEN [rest EXCEPT !.s = <<FF>> \o rest.s]
                 ELSE IF ch = "r" THEN [rest EXCEPT !.s = <<CR>> \o rest.s]
                 ELSE IF ch = "u"
                 THEN LET v == ((DigitOf(text[3]) * 16 + DigitOf(text[4])) * 16
                                + DigitOf(text[5])) * 16 + DigitOf(text[6])
                          after == Unescape(SubSeq(text, 7, Len(text)))
                      IN [after EXCEPT !.s = <<CharTryFrom(v)>> \o after.s]
                 ELSE [ok |-> FALSE, s |-> <<>>]
         ELSE LET rest == Unescape(Tail(text))
              IN [rest EXCEPT !.s = <<Head(text)>> \o rest.s]

\* the single outcome of Int::from_str_radix in a build with
\* (checks = TRUE) or without overflow checks
FromStrRadixIn(text, radix, checks) ==
    LET outs == FromStrRadix(text, radix)
    IN IF \E o \in outs : o.st = "panic"
       THEN IF checks \/ Cardinality(outs) = 1
            THEN CHOOSE o \in outs : o.st = "panic"
            ELSE CHOOSE o \in outs : o.st = "ok"
       ELSE CHOOSE o \in outs : TRUE

\* Relax::from_str_radix
RelaxFromStrRadix(text, radix, checks) ==
    LET o == FromStrRadixIn(text, radix, checks)
    IN CASE o.st = "ok" -> POk(DocInt(o.int))
         [] o.st = "err" -> POk(String(text, "Standard"))
         [] o.st = "panic" -> PErr("panic")

\* Relax::handle_number
HandleNumber(flags, text, checks) ==
    LET t == IF text # <<>> /\ Head(text) \in {"+", "-"} THEN Tail(text) ELSE text
    IN IF StartsWith(text, <<"+">>) /\ ~flags["number_plus"] THEN PErr("leading +")
       ELSE IF StartsWith(t, <<"0", "x">>) \/ StartsWith(t, <<"0", "X">>)
       THEN IF ~flags["number_hex"] THEN PErr("hexadecimal literal")
            ELSE RelaxFromStrRadix(text, 16, checks)
       ELSE IF StartsWith(t, <<"0", "b">>) \/ StartsWith(t, <<"0", "B">>)
       THEN IF ~flags["number_bin"] THEN PErr("binary literal")
            ELSE RelaxFromStrRadix(text, 2, checks)
       ELSE IF StartsWith(t, <<"0", "o">>) \/ StartsWith(t, <<"0", "O">>)
       THEN IF ~flags["number_oct"] THEN PErr("octal literal")
            ELSE RelaxFromStrRadix(text, 8, checks)
       ELSE IF Contains(t, <<".">>) \/ Contains(t, <<"e">>) \/ Contains(t, <<"E">>)
       THEN IF ~flags["number_lax_dec_point"]
               /\ (StartsWith(t, <<".">>) \/ EndsWith(t, <<".">>))
            THEN PErr("bad float literal")
            ELSE POk(Doc("Float", text, "", NoInt, <<>>))
       ELSE RelaxFromStrRadix(text, 10, checks)

RECURSIVE StripLeading(_, _)
\* s.trim_start_matches(ch)
StripLeading(s, ch) ==
    IF s # <<>> /\ Head(s) = ch THEN StripLeading(Tail(s), ch) ELSE s

RECURSIVE TrimEnd(_)
\* str::trim_end
TrimEnd(s) ==
    IF s # <<>> /\ s[Len(s)] = " " THEN TrimEnd(SubSeq(s, 1, Len(s) - 1)) ELSE s

\* str::trim
Trim(s) == TrimEnd(StripLeading(s, " "))

\* Relax::handle_comment, for comments of one line: the line is trimmed,
\* then strip_leading_prefix takes the marker characters and the spaces
HandleComment(flags, comment) ==
    IF StartsWith(comment, <<"/", "*">>)
    THEN IF ~flags["comment_block"] THEN PErr("block comment")
         ELSE LET c == SubSeq(comment, 3, Len(comment) - 2)
              IN POk(Comment(StripLeading(StripLeading(Trim(c), "*"), " "), "Block"))
    ELSE IF StartsWith(comment, <<"/", "/">>)
    THEN IF ~flags["comment_slash"] THEN PErr("slash comment")
         ELSE POk(Comment(StripLeading(StripLeading(Trim(comment), "/"), " "), "SlashSlash"))
    ELSE IF StartsWith(comment, <<"#">>)
    THEN IF ~flags["comment_hash"] THEN PErr("hash comment")
         ELSE POk(Comment(StripLeading(StripLeading(Trim(comment), "#"), " "), "Hash"))
    ELSE PErr("Unknown")

\* Relax::handle_string; the text of a ''' block is taken without
\* indentation
HandleString(flags, s) ==
    IF StartsWith(s, <<SQ, SQ, SQ>>)
    THEN IF ~flags["string_hjson_multiline"] THEN PErr("unexpected hjson multiline string")
         ELSE POk(String(SubSeq(s, 4, Len(s) - 3), "Multiline"))
    ELSE IF StartsWith(s, <<SQ>>) \/ StartsWith(s, <<DQ>>)
    THEN LET body == SubSeq(s, 2, Len(s) - 1)
             json5_line_cont == Contains(body, <<BS, NL>>)
             un == Unescape(body)
         IN IF ~flags["string_single_quote"] /\ StartsWith(s, <<SQ>>) THEN PErr("single quote")
            ELSE IF ~flags["string_json5_multiline"] /\ json5_line_cont
            THEN PErr("unexpected end of line")
            ELSE IF ~un.ok THEN PErr("EscapeError")
            ELSE POk(String(un.s, IF json5_line_cont THEN "Multiline" ELSE "Standard"))
    ELSE IF ~flags["string_unquoted"] THEN PErr("missing quotes")
         ELSE POk(String(s, "Unquoted"))

\* usize::MAX in the line variables k, v and i: no key / value seen yet
LineUnset == -1

\* a comment is kept by the element being read whatever its line
CommentStaysAlways(saw_value, vline, line) == TRUE

\* handle_kvpair / handle_array_elem on a COMMENT: kept when no value has
\* been seen yet or when it starts on the line the value starts on
CommentStays(saw_value, vline, line) == ~saw_value \/ vline = line

\* the pair after the key already starts the next member
KvRoleKeyOnly(k, v) == IF k = LineUnset THEN "key" ELSE "next"

\* handle_kvpair on a pair that is neither comma nor COMMENT
KvRole(k, v) ==
    IF k = LineUnset THEN "key" ELSE IF v = LineUnset THEN "value" ELSE "next"

\* the (Document, bool) of handle_kvpair / handle_array_elem and the
\* position the iterator is left at
ElemOk(d, comma, pos) == [ok |-> TRUE, err |-> "", doc |-> d, comma |-> comma, pos |-> pos]

ElemErr(e) == [ok |-> FALSE, err |-> e, doc |-> Null, comma |-> FALSE, pos |-> 0]

RECURSIVE HandlePair(_, _, _)
RECURSIVE HandleKvpair(_, _, _, _, _, _, _, _)
RECURSIVE HandleArrayElem(_, _, _, _, _, _, _, _)
RECURSIVE HandleAggregate(_, _, _, _, _, _, _, _, _)
RECURSIVE HandleText(_, _, _, _, _)

\* Relax::handle_kvpair: the loop over pairs.peek(), from position pos
HandleKvpair(flags, checks, pairs, pos, k, v, kv, comma) ==
    IF pos > Len(pairs) THEN ElemOk(Fragment(kv), comma, pos)
    ELSE LET pair == pairs[pos]
             line == pair.line
             role == IF pair.rule = "COMMENT"
                     THEN IF CommentStays(v # LineUnset, v, line) THEN "comment" ELSE "next"
                     ELSE KvRole(k, v)
             r == HandlePair(flags, checks, pair)
         IN IF pair.rule = "comma"
            THEN HandleKvpair(flags, checks, pairs, pos + 1, k, v, kv, TRUE)
            ELSE IF role = "next" THEN ElemOk(Fragment(kv), comma, pos)
            ELSE IF ~r.ok THEN ElemErr(r.err)
            ELSE HandleKvpair(flags, checks, pairs, pos + 1,
                              IF role = "key" THEN line ELSE k,
                              IF role = "value" THEN line ELSE v,
                              Append(kv, r.doc), comma)

\* Relax::handle_array_elem: the loop over pairs.peek(), from position pos
HandleArrayElem(flags, checks, pairs, pos, i, saw_value, item, comma) ==
    LET done == IF Len(item) = 1 /\ item[1].kind # "Comment"
                THEN ElemOk(item[1], comma, pos)
                ELSE ElemOk(Fragment(item), comma, pos)
    IN IF pos > Len(pairs) THEN done
       ELSE LET pair == pairs[pos]
                line == pair.line
                role == IF pair.rule = "COMMENT"
                        THEN IF CommentStays(saw_value, i, line) THEN "comment" ELSE "next"
                        ELSE IF ~saw_value THEN "value" ELSE "next"
                r == HandlePair(flags, checks, pair)
            IN IF pair.rule = "comma"
               THEN HandleArrayElem(flags, checks, pairs, pos + 1, i, saw_value, item, TRUE)
               ELSE IF role = "next" THEN done
               ELSE IF ~r.ok THEN ElemErr(r.err)
               ELSE HandleArrayElem(flags, checks, pairs, pos + 1,
                                    IF role = "value" THEN line ELSE i,
                                    saw_value \/ role = "value",
                                    Append(item, r.doc), comma)

\* Relax::handle_pair, Rule::object and Rule::array: the loop over the
\* members; npair is TRUE once a pair has been peeked
HandleAggregate(flags, checks, rule, pairs, pos, npair, items, saw_comma, need_comma) ==
    IF pos <= Len(pairs)
    THEN LET e == IF rule = "object"
                  THEN HandleKvpair(flags, checks, pairs, pos, LineUnset, LineUnset, <<>>, FALSE)
                  ELSE HandleArrayElem(flags, checks, pairs, pos, LineUnset, FALSE, <<>>, FALSE)
         IN IF ~flags["comma_optional"] /\ (need_comma # saw_comma)
            THEN PErr("expected comma")
            ELSE IF ~e.ok THEN PErr(e.err)
            ELSE HandleAggregate(flags, checks, rule, pairs, e.pos, TRUE,
                                 Append(items, e.doc), e.comma, TRUE)
    ELSE IF npair /\ ~flags["comma_trailing"] /\ saw_comma
         THEN PErr("no comma expected")
         ELSE POk(IF rule = "object" THEN Mapping(items) ELSE Sequence(items))

\* Relax::handle_pair, Rule::text: every inner pair in turn, then the
\* dummy Null of EOI is popped
HandleText(flags, checks, pairs, pos, docs) ==
    IF pos > Len(pairs)
    THEN LET d == SubSeq(docs, 1, Len(docs) - 1)
         IN POk(IF Len(d) = 1 THEN d[1] ELSE Fragment(d))
    ELSE LET r == HandlePair(flags, checks, pairs[pos])
         IN IF ~r.ok THEN r
            ELSE HandleText(flags, checks, pairs, pos + 1, Append(docs, r.doc))

\* Relax::handle_pair
HandlePair(flags, checks, pair) ==
    CASE pair.rule = "null" -> POk(Null)
      [] pair.rule = "boolean" -> POk(Boolean(pair.text = <<"t", "r", "u", "e">>))
      [] pair.rule = "string" -> HandleString(flags, pair.text)
      [] pair.rule \in {"hjson_key", "identifier"} ->
            IF ~flags["string_ident"] THEN PErr("missing quotes")
            ELSE POk(String(pair.text, "Unquoted"))
      [] pair.rule = "number" -> HandleNumber(flags, pair.text, checks)
      [] pair.rule \in {"object", "array"} ->
            HandleAggregate(flags, checks, pair.rule, pair.inner, 1, FALSE, <<>>, FALSE, FALSE)
      [] pair.rule = "COMMENT" -> HandleComment(flags, pair.text)
      [] pair.rule = "EOI" -> POk(Null)
      [] pair.rule = "text" -> HandleText(flags, checks, pair.inner, 1, <<>>)
      [] OTHER -> PErr("Unknown")

(***************************************************************************)
(* Source texts as the grammar delivers them.  relax.pest is not part of   *)
(* the sources, so the pairs of a text are built token by token after the  *)
(* specification's description of the grammar: an array holds values, an   *)
(* object holds key / value members, a comma may follow a member, comments *)
(* may stand anywhere.  Token number k of an aggregate carries the digit k *)
(* in its text, which identifies it in the parsed Document.                *)
(***************************************************************************)
Digit(k) == HEX[k + 1]

TokNumber(k, line) == Pair("number", <<Digit(k)>>, line, line, <<>>)

\* an array whose closing bracket is on the line after its only element
TokArray(k, line) == Pair("array", <<>>, line, line + 1, <<TokNumber(k, line)>>)

TokKey(k, line) == Pair("identifier", <<"k", Digit(k)>>, line, line, <<>>)

TokQuotedKey(k, line) == Pair("string", <<DQ, "k", Digit(k), DQ>>, line, line, <<>>)

TokComma(line) == Pair("comma", <<",">>, line, line, <<>>)

CommentMarkers == {"//", "#", "/*"}

TokComment(marker, k, line) ==
    Pair("COMMENT",
         CASE marker = "//" -> <<"/", "/", " ", Digit(k)>>
           [] marker = "#" -> <<"#", Digit(k)>>
           [] marker = "/*" -> <<"/", "*", " ", Digit(k), " ", "*", "/">>,
         line, line, <<>>)

TokEOI == Pair("EOI", <<>>, 0, 0, <<>>)

\* the pairs that are neither comma nor COMMENT
IsItem(pair) == pair.rule \notin {"comma", "COMMENT"}

ItemPositions(inner) == {k \in 1..Len(inner) : IsItem(inner[k])}

\* the last position before j (0: none) and the first after j that hold an item
PrevItem(inner, j) ==
    LET S == {k \in ItemPositions(inner) : k < j}
    IN IF S = {} THEN 0 ELSE CHOOSE k \in S : \A x \in S : x <= k

NextItem(inner, j) ==
    LET S == {k \in ItemPositions(inner) : k > j}
    IN IF S = {} THEN 0 ELSE CHOOSE k \in S : \A x \in S : k <= x

\* in an object the items are alternately a key and a value
IsValueAt(agg, k) ==
    /\ k \in ItemPositions(agg.inner)
    /\ agg.rule = "object" =>
           Cardinality({x \in ItemPositions(agg.inner) : x <= k}) % 2 = 0

\* a comma stands between position i and the end of inner
CommaSince(inner, i) == \E k \in (i + 1)..Len(inner) : inner[k].rule = "comma"

\* the marker of the comment pair
MarkerOf(pair) ==
    IF StartsWith(pair.text, <<"/", "*">>) THEN "/*"
    ELSE IF StartsWith(pair.text, <<"/", "/">>) THEN "//" ELSE "#"

\* the tokens the grammar can deliver next inside the aggregate agg: a
\* comment on the line the text has reached or on the next one, every
\* other token on the line reached (the next one after a comment that
\* runs to the end of its line); a text keeps to one kind of comment and
\* one kind of key
NextTokens(agg) ==
    LET inner == agg.inner
        k == Len(inner) + 1
        items == Cardinality(ItemPositions(inner))
        last == IF inner = <<>> THEN agg.line ELSE inner[Len(inner)].eline
        line_comment == /\ inner # <<>>
                        /\ inner[Len(inner)].rule = "COMMENT"
                        /\ ~StartsWith(inner[Len(inner)].text, <<"/", "*">>)
        here == IF line_comment THEN last + 1 ELSE last
        markers == IF \E c \in 1..Len(inner) : inner[c].rule = "COMMENT"
                   THEN {MarkerOf(inner[c]) : c \in {x \in 1..Len(inner) : inner[x].rule = "COMMENT"}}
                   ELSE CommentMarkers
        comments == {TokComment(m, k, l) : m \in markers, l \in {here, last + 1}}
        values == {TokNumber(k, here), TokArray(k, here)}
        keys == IF \E c \in 1..Len(inner) : inner[c].rule = "identifier"
                THEN {TokKey(k, here)}
                ELSE IF \E c \in 1..Len(inner) : inner[c].rule = "string"
                THEN {TokQuotedKey(k, here)}
                ELSE {TokKey(k, here), TokQuotedKey(k, here)}
        member_done == items > 0 /\ (agg.rule = "object" => items % 2 = 0)
        comma == IF member_done /\ ~CommaSince(inner, PrevItem(inner, k))
                 THEN {TokComma(here)} ELSE {}
    IN comments \cup comma
       \cup (IF agg.rule = "array" \/ items % 2 = 1 THEN values ELSE keys)

\* the aggregate is a complete member list
IsComplete(agg) ==
    agg.rule = "object" => Cardinality(ItemPositions(agg.inner)) % 2 = 0

\* scalar texts that use one extension each, and plain ones
ScalarTokens ==
    {Pair("number", t, 0, 0, <<>>) :
        t \in {<<"1">>, <<"+", "1">>, <<"0", "x", "1">>, <<"0", "b", "1">>,
               <<"0", "o", "1">>, <<".", "5">>, <<"1", ".", "5">>}}
    \cup {Pair("string", t, 0, 0, <<>>) :
        t \in {<<DQ, "a", DQ>>, <<SQ, "a", SQ>>, <<SQ, SQ, SQ, "a", SQ, SQ, SQ>>,
               <<"a">>, <<DQ, "a", BS, NL, "b", DQ>>}}
    \cup {Pair("null", <<"n", "u", "l", "l">>, 0, 0, <<>>),
          Pair("boolean", <<"t", "r", "u", "e">>, 0, 0, <<>>)}

\* the text rule around the document's value
TextPair(value) == Pair("text", <<>>, 0, value.eline, <<value, TokEOI>>)

(***************************************************************************)
(* The bytes codec (src/src/hexdump.rs).  A byte is a number in 0..255, a  *)
(* text a sequence of characters; the characters 0x60 and 0x7f are         *)
(* written "GRAVE" and "DEL".                                              *)
(* The three regular expressions of from_str are kept as syntax trees and  *)
(* matched as the regex crate matches them: the first match in the order   *)
(* of a backtracking search, at the leftmost position that has one.        *)
(***************************************************************************)
\* const HEX
HexdumpHEX == <<"0", "1", "2", "3", "4", "5", "6", "7",
                "8", "9", "a", "b", "c", "d", "e", "f">>

\* the characters of the bytes 0x20..=0x7f
Ascii ==
    <<" ", "!", "\"", "#", "$", "%", "&", "'", "(", ")", "*", "+", ",", "-", ".", "/",
      "0", "1", "2", "3", "4", "5", "6", "7", "8", "9", ":", ";", "<", "=", ">", "?",
      "@", "A", "B", "C", "D", "E", "F", "G", "H", "I", "J", "K", "L", "M", "N", "O",
      "P", "Q", "R", "S", "T", "U", "V", "W", "X", "Y", "Z", "[", "\\", "]", "^", "_",
      "GRAVE", "a", "b", "c", "d", "e", "f", "g", "h", "i", "j", "k", "l", "m", "n", "o",
      "p", "q", "r", "s", "t", "u", "v", "w", "x", "y", "z", "{", "|", "}", "~", "DEL">>

\* buf[j]: the byte itself in 0x20..=0x7f, '.' otherwise
AsciiOf(byte) == IF byte >= 32 /\ byte <= 127 THEN Ascii[byte - 31] ELSE "."

\* HEX[byte >> 4], HEX[byte & 0x0F]
HexPair(byte) == <<HexdumpHEX[(byte \div 16) + 1], HexdumpHEX[(byte % 16) + 1]>>

\* {:08x}, of an offset below 16^8
Hex8(n) == [k \in 1..8 |-> HexdumpHEX[((n \div Pow2(4 * (8 - k))) % 16) + 1]]

\* {0:>1$} for the argument " ": one space, padded on the left to width
Padding(width) == [k \in 1..Max(width, 1) |-> " "]

RECURSIVE Flatten(_)
\* the texts of a sequence, one after the other
Flatten(texts) == IF texts = <<>> THEN <<>> ELSE Head(texts) \o Flatten(Tail(texts))

RECURSIVE JoinLines(_)
\* the lines with a '\n' before each but the first
JoinLines(lines) ==
    IF Len(lines) <= 1 THEN Flatten(lines)
    ELSE JoinLines(SubSeq(lines, 1, Len(lines) - 1)) \o <<NL>> \o lines[Len(lines)]

\* data.chunks(16)
Chunks(data) ==
    [i \in 1..((Len(data) + 15) \div 16) |->
        SubSeq(data, 16 * (i - 1) + 1, Min(16 * i, Len(data)))]

\* hexstr
Hexstr(data) == Flatten([k \in 1..Len(data) |-> HexPair(data[k])])

\* hexdump
Hexdump(data) ==
    LET line(i) ==
            LET chunk == Chunks(data)[i]
                gaps == Cardinality({j \in 0..(Len(chunk) - 1) : j % 8 = 0})
                space == 51 - gaps - 3 * Len(chunk)
                byte(j) == (IF (j - 1) % 8 = 0 THEN <<" ">> ELSE <<>>)
                           \o <<" ">> \o HexPair(chunk[j])
            IN Hex8((i - 1) * 16)
               \o Flatten([j \in 1..Len(chunk) |-> byte(j)])
               \o Padding(space) \o <<" ", "|">>
               \o [j \in 1..Len(chunk) |-> AsciiOf(chunk[j])] \o <<"|">>
    IN JoinLines([i \in 1..Len(Chunks(data)) |-> line(i)])

\* xxd
Xxd(data, grouping) ==
    LET line(i) ==
            LET chunk == Chunks(data)[i]
                gaps == Cardinality({j \in 0..(Len(chunk) - 1) : j % grouping = 0})
                space == (16 \div grouping) * (grouping * 2 + 1) + 1
                         - gaps - 2 * Len(chunk)
                byte(j) == (IF (j - 1) % grouping = 0 THEN <<" ">> ELSE <<>>)
                           \o HexPair(chunk[j])
            IN Hex8((i - 1) * 16) \o <<":">>
               \o Flatten([j \in 1..Len(chunk) |-> byte(j)])
               \o Padding(space) \o <<" ">>
               \o [j \in 1..Len(chunk) |-> AsciiOf(chunk[j])]
    IN JoinLines([i \in 1..Len(Chunks(data)) |-> line(i)])

\* enum BytesFormat
BytesFormats == {"Standard", "HexStr", "Hexdump", "Xxd"}

\* hexdump::to_string for the formats that have a text; it is None for the
\* others
HexToString(data, format) ==
    CASE format = "HexStr" -> Hexstr(data)
      [] format = "Hexdump" -> Hexdump(data)
      [] format = "Xxd" -> Xxd(data, 2)

\* [[:xdigit:]]
XDigits == {HexdumpHEX[k] : k \in 1..16} \cup {"A", "B", "C", "D", "E", "F"}

\* unhex
Unhex(c) ==
    IF \E k \in 1..16 : HexdumpHEX[k] = c
    THEN (CHOOSE k \in 1..16 : HexdumpHEX[k] = c) - 1
    ELSE (CHOOSE k \in 11..16 : HEX[k] = c) - 1

\* Result<Vec<u8>, Error> of the decoder
HexOk(b) == [ok |-> TRUE, err |-> "", bytes |-> b]

HexErr(e) == [ok |-> FALSE, err |-> e, bytes |-> <<>>]

\* from_hex: the bytes of the hex digits of text, appended to vec
FromHex(text, vec) ==
    LET digits == SelectSeq(text, LAMBDA c : c \in XDigits)
        pairs == [k \in 1..(Len(digits) \div 2) |->
                    16 * Unhex(digits[2 * k - 1]) + Unhex(digits[2 * k])]
    IN IF Len(digits) % 2 = 1 THEN HexErr("odd number of hex input characters")
       ELSE HexOk(vec \o pairs)

\* a node of the syntax tree of a regular expression
ReNode(op, cls, items, min, max, unbounded, greedy) ==
    [op |-> op, cls |-> cls, items |-> items, min |-> min, max |-> max,
     unbounded |-> unbounded, greedy |-> greedy]

\* one character of a class: "xdigit", "space" (\s), "dot" (.), "xX" ([xX])
\* or the character itself
ReClass(cls) == ReNode("class", cls, <<>>, 0, 0, FALSE, TRUE)

ReSeq(items) == ReNode("seq", "", items, 0, 0, FALSE, TRUE)

\* sub{min,max}
ReRepeat(sub, min, max) == ReNode("repeat", "", <<sub>>, min, max, FALSE, TRUE)

\* sub{min,}
ReAtLeast(sub, min) == ReNode("repeat", "", <<sub>>, min, 0, TRUE, TRUE)

\* sub+?
RePlusLazy(sub) == ReNode("repeat", "", <<sub>>, 1, 0, TRUE, FALSE)

\* ^ and $ of a multi_line expression, ( and ) of the capture group 1
ReMark(op) == ReNode(op, "", <<>>, 0, 0, FALSE, TRUE)

InClass(c, cls) ==
    CASE cls = "xdigit" -> c \in XDigits
      [] cls = "space" -> c \in {" ", TAB, NL, "\r", "\f"}
      [] cls = "dot" -> c # NL
      [] cls = "xX" -> c \in {"x", "X"}
      [] OTHER -> c = cls

\* no match
ReFail == [ok |-> FALSE, start |-> 0, end |-> 0, cs |-> 0, ce |-> 0]

\* the nodes a repetition matches once
ReItems(node) ==
    IF node.items[1].op = "seq" THEN node.items[1].items ELSE node.items

\* The backtracking search for the leftmost match of re that starts at from
\* or later: stack holds the nodes still to match at pos, cap the span of
\* group 1, alts the alternatives not tried yet, the latest first.
ReStart(re, from) ==
    [re |-> re, start |-> from, stack |-> <<re>>, pos |-> from, cap |-> <<0, 0>>,
     alts |-> <<>>, done |-> FALSE, ok |-> FALSE]

\* the search after a failure: the latest alternative, then the next start
ReBacktrack(text, m) ==
    IF m.alts # <<>>
    THEN [m EXCEPT !.stack = Head(m.alts).stack, !.pos = Head(m.alts).pos,
                   !.cap = Head(m.alts).cap, !.alts = Tail(m.alts)]
    ELSE IF m.start <= Len(text)
    THEN ReStart(m.re, m.start + 1)
    ELSE [m EXCEPT !.done = TRUE]

\* one step of the search
ReStep(text, m) ==
    IF m.done THEN m
    ELSE IF m.stack = <<>> THEN [m EXCEPT !.done = TRUE, !.ok = TRUE]
    ELSE LET node == Head(m.stack)
             rest == Tail(m.stack)
             fewer == [node EXCEPT !.min = Max(@ - 1, 0), !.max = Max(@ - 1, 0)]
             once == ReItems(node) \o <<fewer>> \o rest
             here == [stack |-> rest, pos |-> m.pos, cap |-> m.cap]
             again == [stack |-> once, pos |-> m.pos, cap |-> m.cap]
             skip == [m EXCEPT !.stack = rest]
         IN CASE node.op = "class" ->
                    IF m.pos <= Len(text) /\ InClass(text[m.pos], node.cls)
                    THEN [m EXCEPT !.stack = rest, !.pos = @ + 1]
                    ELSE ReBacktrack(text, m)
              [] node.op = "^" ->
                    IF m.pos = 1 \/ text[m.pos - 1] = NL
                    THEN skip ELSE ReBacktrack(text, m)
              [] node.op = "$" ->
                    IF m.pos = Len(text) + 1 \/ text[m.pos] = NL
                    THEN skip ELSE ReBacktrack(text, m)
              [] node.op = "(" -> [skip EXCEPT !.cap = <<m.pos, @[2]>>]
              [] node.op = ")" -> [skip EXCEPT !.cap = <<@[1], m.pos>>]
              [] node.op = "seq" -> [m EXCEPT !.stack = node.items \o rest]
              [] node.op = "repeat" ->
                    IF node.min > 0 THEN [m EXCEPT !.stack = once]
                    ELSE IF ~node.unbounded /\ node.max = 0 THEN skip
                    ELSE IF node.greedy
                    THEN [m EXCEPT !.stack = once, !.alts = <<here>> \o @]
                    ELSE [m EXCEPT !.stack = rest, !.alts = <<again>> \o @]

RECURSIVE ReRun(_, _, _)
\* the search after at most n more steps
ReRun(text, m, n) ==
    IF m.done \/ n = 0 THEN m
    ELSE IF n = 1 THEN ReStep(text, m)
    ELSE ReRun(text, ReRun(text, m, n \div 2), n - (n \div 2))

\* more steps than a search of text takes
ReSteps(text) == Pow2(8) * (Len(text) + 1) * (Len(text) + 1)

\* the leftmost match of re in text that starts at from or later
ReFind(text, re, from) ==
    LET m == ReRun(text, ReStart(re, from), ReSteps(text))
    IN IF m.done /\ m.ok
       THEN [ok |-> TRUE, start |-> m.start, end |-> m.pos,
             cs |-> m.cap[1], ce |-> m.cap[2]]
       ELSE ReFail

\* Regex::is_match
IsMatch(re, text) == ReFind(text, re, 1).ok

RECURSIVE CapturesFrom(_, _, _)
\* Regex::captures_iter: group 1 of the successive matches that do not
\* overlap
CapturesFrom(re, text, from) ==
    LET m == ReFind(text, re, from)
    IN IF ~m.ok THEN <<>>
       ELSE <<SubSeq(text, m.cs, m.ce - 1)>>
            \o CapturesFrom(re, text, IF m.end > m.start THEN m.end ELSE m.end + 1)

CapturesIter(re, text) == CapturesFrom(re, text, 1)

\* ^[[:xdigit:]]{8}:\s+((?:[[:xdigit:]]{2,}\s)+)\s+.{1,16}$ (multi_line)
XxdRegex ==
    ReSeq(<<ReMark("^"), ReRepeat(ReClass("xdigit"), 8, 8), ReClass(":"),
            ReAtLeast(ReClass("space"), 1),
            ReMark("("),
            ReAtLeast(ReSeq(<<ReAtLeast(ReClass("xdigit"), 2), ReClass("space")>>), 1),
            ReMark(")"),
            ReAtLeast(ReClass("space"), 1),
            ReRepeat(ReClass("dot"), 1, 16), ReMark("$")>>)

\* ^[[:xdigit:]]{8}\s+((?:[[:xdigit:]]{2}\s+?){1,16})\s+\|.*\|$ (multi_line)
HexdumpRegex ==
    ReSeq(<<ReMark("^"), ReRepeat(ReClass("xdigit"), 8, 8),
            ReAtLeast(ReClass("space"), 1),
            ReMark("("),
            ReRepeat(ReSeq(<<ReRepeat(ReClass("xdigit"), 2, 2),
                             RePlusLazy(ReClass("space"))>>), 1, 16),
            ReMark(")"),
            ReAtLeast(ReClass("space"), 1),
            ReClass("|"), ReAtLeast(ReClass("dot"), 0), ReClass("|"), ReMark("$")>>)

\* (?:0[xX])?((?:[[:xdigit:]]{2}\s*)+)
HexstrRegex ==
    ReSeq(<<ReRepeat(ReSeq(<<ReClass("0"), ReClass("xX")>>), 0, 1),
            ReMark("("),
            ReAtLeast(ReSeq(<<ReRepeat(ReClass("xdigit"), 2, 2),
                              ReAtLeast(ReClass("space"), 0)>>), 1),
            ReMark(")")>>)

RECURSIVE FromHexAll(_, _)
\* the loop of from_str over the captures
FromHexAll(captures, res) ==
    IF captures = <<>> THEN HexOk(res)
    ELSE LET r == FromHex(Head(captures), res)
         IN IF ~r.ok THEN r ELSE FromHexAll(Tail(captures), r.bytes)

\* hexdump::from_str
HexFromStr(text) ==
    IF IsMatch(XxdRegex, text) THEN FromHexAll(CapturesIter(XxdRegex, text), <<>>)
    ELSE IF IsMatch(HexdumpRegex, text)
    THEN FromHexAll(CapturesIter(HexdumpRegex, text), <<>>)
    ELSE IF IsMatch(HexstrRegex, text)
    THEN FromHexAll(CapturesIter(HexstrRegex, text), <<>>)
    ELSE HexErr("unrecognized format")

(***************************************************************************)
(* User values of the serde data model, as far as the serializer and the   *)
(* deserializer distinguish them.  A value is a record: t is the kind, ty  *)
(* the primitive type of an integer, n its number (for a bool 0 / 1, for   *)
(* an option 0 = None / 1 = Some, for a struct or an enum variant the      *)
(* number of its Annotate impl in Annotators: 0 none, 1 a comment on field *)
(* a, 2 format = hex on field a, ...), s the text of a string, the bytes   *)
(* of a byte buffer or the name of an enum variant, kids the values        *)
(* inside (for a Document-typed value, the Document).                      *)
(***************************************************************************)
Value(t, ty, n, s, kids) == [t |-> t, ty |-> ty, n |-> n, s |-> s, kids |-> kids]

\* no user value
NoValue == Value("-", U(NarrowBits), 0, <<>>, <<>>)

VBool(b) == Value("bool", U(NarrowBits), IF b THEN 1 ELSE 0, <<>>, <<>>)

VInt(ty, v) == Value("int", ty, v, <<>>, <<>>)

VStr(s) == Value("str", U(NarrowBits), 0, s, <<>>)

\* None of an Option<T>; w is some value of T and stands for the type
VNone(w) == Value("option", U(NarrowBits), 0, <<>>, <<w>>)

VSome(x) == Value("option", U(NarrowBits), 1, <<>>, <<x>>)

\* a Vec or a tuple
VSeq(xs) == Value("seq", U(NarrowBits), 0, <<>>, xs)

\* struct { a, b } whose Annotate impl annotates field a as ann says
VStruct(ann, a, b) == Value("struct", U(NarrowBits), ann, <<>>, <<a, b>>)

VariantKinds == {"unit_variant", "newtype_variant", "tuple_variant", "struct_variant"}

\* the variant V of an enum; a struct variant has the fields of FieldNames
VVariant(kind, xs) == Value(kind, U(NarrowBits), 0, <<"V">>, xs)

\* a map of one entry
VMap(k, v) == Value("map", U(NarrowBits), 0, <<>>, <<k, v>>)

\* struct T(a, b) whose Annotate impl is number ann
VTupleStruct(ann, a, b) == Value("tuple_struct", U(NarrowBits), ann, <<>>, <<a, b>>)

\* struct T(a) whose Annotate impl is number ann
VNewtypeStruct(ann, a) == Value("newtype_struct", U(NarrowBits), ann, <<>>, <<a>>)

\* the variant V of an enum whose Annotate impl is number ann
VAnnVariant(kind, ann, xs) == Value(kind, U(NarrowBits), ann, <<"V">>, xs)

\* a byte buffer (serde_bytes): b holds the bytes, as numbers
VBytes(b) == Value("bytes", U(NarrowBits), 0, b, <<>>)

\* a value of type Document
VDoc(d) == Value("doc", U(NarrowBits), 0, <<>>, <<d>>)

FieldNames == << <<"a">>, <<"b">> >>

\* Result<T, Error> of the deserializer
DeOk(v) == [ok |-> TRUE, err |-> "", v |-> v]

DeErr(e) == [ok |-> FALSE, err |-> e, v |-> NoValue]

(***************************************************************************)
(* The serializer (src/src/ser.rs).                                        *)
(***************************************************************************)
\* impl From<&'static str> for Document
StaticStr(s) == Doc("StaticStr", s, "Standard", NoInt, <<>>)

\* AnnotatedSerializer::comment for a member the annotator has a comment for
FieldComment == Comment(<<"c">>, "Standard")

\* enum Format
Formats ==
    {"Block", "Binary", "Decimal", "Hex", "Octal", "Compact", "HexStr", "Hexdump", "Xxd"}

\* Option<&str> of a variant name: None
NoVariant == <<>>

\* enum MemberId
MemberName(k) == <<"Name", FieldNames[k]>>

MemberIndex(i) == <<"Index", i>>

MemberVariant == <<"Variant">>

\* what an Annotate impl answers for one member: the Option<Format> of
\* format() and whether comment() is Some
MemberAnn(f, c) == [format |-> f, comment |-> c]

Plain == MemberAnn("None", FALSE)

\* the Annotate impls of the model's types: each annotates the first field
\* (a, or index 0) and, for an enum, the variant V; the number of an impl
\* is its position less one
Annotators ==
    << [field |-> Plain, variant |-> Plain],
       [field |-> MemberAnn("None", TRUE), variant |-> Plain],
       [field |-> MemberAnn("Hex", FALSE), variant |-> Plain],
       [field |-> MemberAnn("Compact", FALSE), variant |-> Plain],
       [field |-> MemberAnn("Compact", TRUE), variant |-> Plain],
       [field |-> MemberAnn("Block", FALSE), variant |-> Plain],
       [field |-> MemberAnn("HexStr", FALSE), variant |-> Plain],
       [field |-> MemberAnn("Hexdump", FALSE), variant |-> Plain],
       [field |-> MemberAnn("Xxd", FALSE), variant |-> Plain],
       [field |-> Plain, variant |-> MemberAnn("Compact", FALSE)],
       [field |-> MemberAnn("Hex", FALSE), variant |-> MemberAnn("Compact", TRUE)],
       [field |-> MemberAnn("Compact", FALSE), variant |-> MemberAnn("Hex", FALSE)],
       [field |-> MemberAnn("Binary", FALSE), variant |-> MemberAnn("None", TRUE)],
       [field |-> MemberAnn("Octal", FALSE), variant |-> Plain],
       [field |-> MemberAnn("Decimal", FALSE), variant |-> Plain] >>

\* the MemberId of the first field of a value of an annotated type
FirstMember(a) ==
    IF a.t \in {"struct", "struct_variant"} THEN MemberName(1) ELSE MemberIndex(0)

\* Annotate::format and Annotate::comment of the annotator a (NoValue for no
\* annotator): the impl of a struct looks at the field, the impl of an enum
\* at the variant and the field
AnnotationOf(a, variant, member) ==
    CASE a.t \in {"struct", "tuple_struct", "newtype_struct"} ->
            IF member = FirstMember(a) THEN Annotators[a.n + 1].field ELSE Plain
      [] a.t \in VariantKinds ->
            IF variant # a.s THEN Plain
            ELSE IF member = MemberVariant THEN Annotators[a.n + 1].variant
            ELSE IF member = FirstMember(a) THEN Annotators[a.n + 1].field
            ELSE Plain
      [] OTHER -> Plain

\* Annotate::as_annotate: Some(self) for a type with an Annotate impl of
\* its own, None by the blanket impl
AsAnnotate(v) ==
    IF v.t \in {"struct", "tuple_struct", "newtype_struct"} \cup VariantKinds
    THEN v ELSE NoValue

\* struct AnnotatedSerializer
Ser(annotator, base, strformat, bytesformat, compact) ==
    [annotator |-> annotator, base |-> base, strformat |-> strformat,
     bytesformat |-> bytesformat, compact |-> compact]

\* AnnotatedSerializer::new
SerNew(annotator) == Ser(annotator, "Dec", "Standard", "Standard", FALSE)

\* Option<AnnotatedSerializer>
SomeSer(ser) == [some |-> TRUE, ser |-> ser]

NoSer == [some |-> FALSE, ser |-> SerNew(NoValue)]

\* AnnotatedSerializer::annotate
SerAnnotate(ser, variant, member) ==
    LET f == AnnotationOf(ser.annotator, variant, member).format
    IN CASE f = "Block" -> SomeSer([ser EXCEPT !.strformat = "Multiline"])
         [] f = "Binary" -> SomeSer([ser EXCEPT !.base = "Bin"])
         [] f = "Decimal" -> SomeSer([ser EXCEPT !.base = "Dec"])
         [] f = "Hex" -> SomeSer([ser EXCEPT !.base = "Hex"])
         [] f = "Octal" -> SomeSer([ser EXCEPT !.base = "Oct"])
         [] f = "Compact" -> SomeSer([ser EXCEPT !.compact = TRUE])
         [] f = "HexStr" -> SomeSer([ser EXCEPT !.bytesformat = "HexStr"])
         [] f = "Hexdump" -> SomeSer([ser EXCEPT !.bytesformat = "Hexdump"])
         [] f = "Xxd" -> SomeSer([ser EXCEPT !.bytesformat = "Xxd"])
         [] OTHER -> NoSer

\* AnnotatedSerializer::comment, as the nodes it adds
SerComment(ser, variant, member) ==
    IF AnnotationOf(ser.annotator, variant, member).comment
    THEN <<FieldComment>> ELSE <<>>

\* Result<Document, Error> of a serializer
SerOk(d) == [ok |-> TRUE, err |-> "", doc |-> d]

SerErr(e) == [ok |-> FALSE, err |-> e, doc |-> Null]

\* the drivers of serde: the serializer and the deserializer of this
\* crate, and those of another crate
Drivers == {"serde_annotate", "serde_json"}

\* is_serde_annotate answering true for every serializer
IsSerializerAlways(driver) == TRUE

\* IsSerializer::is_serde_annotate: true for &mut AnnotatedSerializer only
IsSerializer(driver) == driver = "serde_annotate"

\* IsDeserializer::is_serde_annotate: true for &mut Deserializer only
IsDeserializer(driver) == driver = "serde_annotate"

\* impl Serialize for Document
SerializeDocument(d, driver) ==
    IF IsSerializer(driver) THEN SerOk(d)
    ELSE SerErr("Serializing document nodes is only supported with serde_annotate::AnnotatedSerializer")

\* serialize_bytes taking the integer base of the frame for a bytes format
SerializeBytesOfBase(ser, b) ==
    IF ser.bytesformat = "Standard" /\ ser.base = "Hex"
    THEN String(HexToString(b, "HexStr"), ser.strformat)
    ELSE IF ser.bytesformat \in {"HexStr", "Hexdump", "Xxd"}
         THEN String(HexToString(b, ser.bytesformat),
                     IF ser.bytesformat = "HexStr" THEN "Standard" ELSE "Multiline")
         ELSE Bytes(b)

\* AnnotatedSerializer::serialize_bytes
SerializeBytes(ser, b) ==
    IF ser.bytesformat \in {"HexStr", "Hexdump", "Xxd"}
    THEN String(HexToString(b, ser.bytesformat),
                IF ser.bytesformat = "HexStr" THEN "Standard" ELSE "Multiline")
    ELSE Bytes(b)

\* the Option<&str> that serialize_field of the value's kind gives to
\* annotate and to comment: SerializeTupleVariant gives Some(self.variant),
\* SerializeStruct, SerializeTupleStruct and SerializeStructVariant None
QueryVariant(v) ==
    IF v.t \in {"newtype_variant", "tuple_variant"} THEN v.s ELSE NoVariant

\* value.serialize(&mut ser), ser.annotator being value.as_annotate(): the
\* Serializer method serde calls for the value's kind
RECURSIVE Serialize(_, _)
Serialize(v, ser) ==
    LET \* AnnotatedSerializer::serialize(value, opt) for the value kids[k]
        inner(k, opt) ==
            Serialize(v.kids[k], [(IF opt.some THEN opt.ser ELSE ser)
                                    EXCEPT !.annotator = AsAnnotate(v.kids[k])])
        kids == [k \in 1..Len(v.kids) |-> inner(k, NoSer)]
        \* SerializeStruct::serialize_field / SerializeStructVariant::serialize_field
        field(k) ==
            Fragment(SerComment(ser, QueryVariant(v), MemberName(k))
                     \o <<StaticStr(FieldNames[k]),
                          inner(k, SerAnnotate(ser, QueryVariant(v), MemberName(k)))>>)
        \* SerializeTupleStruct::serialize_field / SerializeTupleVariant::serialize_field
        element(k, variant) ==
            LET node == inner(k, SerAnnotate(ser, variant, MemberIndex(k - 1)))
                c == SerComment(ser, variant, MemberIndex(k - 1))
            IN IF c # <<>> THEN Fragment(c \o <<node>>) ELSE node
        \* the variant-level annotation of an enum variant
        a == SerAnnotate(ser, v.s, MemberVariant)
        compact == a.some /\ a.ser.compact
        variant(node) ==
            Mapping(<<Fragment(SerComment(ser, v.s, MemberVariant)
                               \o <<StaticStr(v.s),
                                    IF compact THEN Compact(node) ELSE node>>)>>)
    IN CASE v.t = "bool" -> Boolean(v.n = 1)
         [] v.t = "int" -> DocInt(IntNew(v.ty, v.n, ser.base))
         [] v.t = "str" -> String(v.s, ser.strformat)
         [] v.t = "bytes" -> SerializeBytes(ser, v.s)
         [] v.t = "doc" -> SerializeDocument(v.kids[1], "serde_annotate").doc
         [] v.t = "option" -> IF v.n = 0 THEN Null ELSE inner(1, NoSer)
         [] v.t = "seq" -> Sequence(kids)
         [] v.t = "struct" -> Mapping([k \in 1..Len(v.kids) |-> field(k)])
         [] v.t = "tuple_struct" ->
               Sequence([k \in 1..Len(v.kids) |-> element(k, QueryVariant(v))])
         [] v.t = "newtype_struct" ->
               inner(1, SerAnnotate(ser, NoVariant, MemberIndex(0)))
         [] v.t = "map" ->
               \* SerializeMap::serialize_key hands the key the serializer
               \* of the map itself
               Mapping(<<Fragment(<<Serialize(v.kids[1], ser), inner(2, NoSer)>>)>>)
         [] v.t = "unit_variant" -> String(v.s, ser.strformat)
         [] v.t = "newtype_variant" ->
               variant(inner(1, SerAnnotate(ser, v.s, MemberIndex(0))))
         [] v.t = "tuple_variant" ->
               variant(Sequence([k \in 1..Len(v.kids) |-> element(k, QueryVariant(v))]))
         [] v.t = "struct_variant" ->
               variant(Mapping([k \in 1..Len(v.kids) |-> field(k)]))

\* serde_annotate::serialize
SerializeValue(v) == Serialize(v, SerNew(AsAnnotate(v)))

\* Option<Document>
NoKey == [some |-> FALSE, doc |-> Null]

SomeKey(d) == [some |-> TRUE, doc |-> d]

\* SerializeMap::new
SerializeMapNew(ser) == [serializer |-> ser, next_key |-> NoKey, mapping |-> <<>>]

\* the Fragment serialize_value and serialize_entry push: the value is
\* serialized by AnnotatedSerializer::serialize(value, None)
MapFragment(m, keydoc, value) ==
    Fragment(<<keydoc,
               Serialize(value, [m.serializer EXCEPT !.annotator = AsAnnotate(value)])>>)

\* SerializeMap::serialize_key; ok: whether key.serialize returns Ok
MapSerializeKey(m, key, ok) ==
    IF ok THEN [m EXCEPT !.next_key = SomeKey(Serialize(key, m.serializer))] ELSE m

\* serialize_value with the pending key left in next_key
MapSerializeValueKeeping(m, value, ok) ==
    IF ok THEN [m EXCEPT !.mapping = Append(@, MapFragment(m, m.next_key.doc, value))]
    ELSE m

\* SerializeMap::serialize_value when next_key is Some: the key is taken,
\* then the value is serialized; ok: whether value.serialize returns Ok
MapSerializeValue(m, value, ok) ==
    LET taken == [m EXCEPT !.next_key = NoKey]
    IN IF ok THEN [taken EXCEPT !.mapping = Append(@, MapFragment(m, m.next_key.doc, value))]
       ELSE taken

\* SerializeMap::serialize_entry; kok, vok: whether key.serialize and
\* value.serialize return Ok
MapSerializeEntry(m, key, kok, value, vok) ==
    IF kok /\ vok
    THEN [m EXCEPT !.mapping = Append(@, MapFragment(m, Serialize(key, m.serializer), value))]
    ELSE m

\* SerializeMap::end
MapEnd(m) == SerOk(Mapping(m.mapping))

(***************************************************************************)
(* The JSON-family emitter (src/src/json.rs).  The text it writes is kept  *)
(* as the pairs the grammar delivers for it: a scalar is a pair with the   *)
(* text written for it, an aggregate holds the pairs of its members, and   *)
(* every pair carries the line the emitter wrote it on.  json.rs in the    *)
(* sources matches an older Document: what it does with a Fragment and a   *)
(* StaticStr follows the specification (a Fragment is written child by     *)
(* child, a StaticStr as a String).                                        *)
(***************************************************************************)
\* Document::to_json
ToJson ==
    [comment |-> "None", bases |-> {"Dec"}, literals |-> {"Dec"},
     strict_numeric_limits |-> TRUE, multiline |-> "None", bare_keys |-> FALSE,
     compact |-> FALSE]

\* Document::to_json5
ToJson5 ==
    [ToJson EXCEPT !.comment = "SlashSlash", !.bases = @ \cup {"Hex"},
                   !.literals = @ \cup {"Hex"}, !.multiline = "Json5",
                   !.bare_keys = TRUE]

\* Document::to_hjson
ToHjson ==
    [ToJson EXCEPT !.comment = "Hash", !.multiline = "Hjson", !.bare_keys = TRUE]

Dialects == {"json", "json5", "hjson"}

Emitter(dialect) ==
    CASE dialect = "json" -> ToJson
      [] dialect = "json5" -> ToJson5
      [] dialect = "hjson" -> ToHjson

\* what an emit_ function has written (the pairs, and the line the text
\* ends on) or the error it returned
EmitOk(toks, line) == [ok |-> TRUE, err |-> "", toks |-> toks, line |-> line]

EmitErr(e) == [ok |-> FALSE, err |-> e, toks |-> <<>>, line |-> 0]

\* the 2^53 of Int::is_legal_json, in proportion to the widest type and,
\* as 53 is at least 32, not below the narrow types
JsonSafeBits == Max(WideBits - 2, NarrowBits)

\* Int::is_legal_json
IsLegalJson(i) ==
    IF i.value.ty.bits < WideBits THEN TRUE
    ELSE IF i.value.ty.signed
         THEN i.value.v > -Pow2(JsonSafeBits) /\ i.value.v < Pow2(JsonSafeBits)
         ELSE i.value.v < Pow2(JsonSafeBits)

\* the bytes whose entry in the ESCAPE table is not 0, among the
\* characters of the model's strings
ESCAPE == {DQ, BS, TAB, NL, CR, FF, BSP, SOH, US}

\* the bytes whose entry in the ESCAPE table is UU
UU == {SOH, US}

\* write!(w, "\\u{:04x}", byte)
EscapeUnicode(byte) ==
    <<BS, "u", "0", "0", LowerHex[(byte \div 16) + 1], LowerHex[(byte % 16) + 1]>>

\* JsonEmitter::emit_string_strict: a byte whose entry is UU is written as
\* \u and four digits, any other escaped byte as a backslash and the byte
\* itself
RECURSIVE EscapeBytes(_)
EscapeBytes(value) ==
    IF value = <<>> THEN <<>>
    ELSE (IF Head(value) \in UU THEN EscapeUnicode(ControlCode[Head(value)])
          ELSE IF Head(value) \in ESCAPE THEN <<BS, Head(value)>>
          ELSE <<Head(value)>>)
         \o EscapeBytes(Tail(value))

EmitStringStrict(value) == <<DQ>> \o EscapeBytes(value) \o <<DQ>>

\* JsonEmitter::emit_int
EmitInt(p, i, line) ==
    LET b == i.base
        s == Format(i, IF b \in p.bases THEN b ELSE "None")
    IN IF (p.strict_numeric_limits /\ ~IsLegalJson(i))
          \/ (b \in p.bases /\ b \notin p.literals)
       THEN Pair("string", <<DQ>> \o s \o <<DQ>>, line, line, <<>>)
       ELSE Pair("number", s, line, line, <<>>)

\* JsonEmitter::emit_boolean
EmitBoolean(b, line) ==
    Pair("boolean",
         IF b THEN <<"t", "r", "u", "e">> ELSE <<"f", "a", "l", "s", "e">>,
         line, line, <<>>)

\* JsonEmitter::emit_comment for a comment of one line
EmitComment(p, c, line) ==
    IF p.comment = "None" \/ p.compact THEN EmitOk(<<>>, line)
    ELSE LET marker == IF p.comment = "Hash" THEN <<"#">> ELSE <<"/", "/">>
         IN EmitOk(<<Pair("COMMENT",
                          IF c = <<>> THEN marker ELSE marker \o <<" ">> \o c,
                          line, line, <<>>)>>,
                   line + 1)

IdentifierChars ==
    {"a", "b", "c", "k", "V", "_", "$"} \cup {HEX[k] : k \in 1..10}

\* is_legal_bareword; no reserved word is made of the model's characters
IsLegalBareword(word) ==
    /\ word # <<>>
    /\ word[1] \notin {HEX[k] : k \in 1..10}
    /\ \A k \in 1..Len(word) : word[k] \in IdentifierChars

\* JsonEmitter::emit_mapping, the match on the key
EmitKey(p, key, line) ==
    CASE key.kind \in {"String", "StaticStr"} ->
            IF p.bare_keys /\ IsLegalBareword(key.text)
            THEN EmitOk(<<Pair("identifier", key.text, line, line, <<>>)>>, line)
            ELSE EmitOk(<<Pair("string", <<DQ>> \o key.text \o <<DQ>>, line, line, <<>>)>>, line)
      [] key.kind = "Boolean" ->
            EmitOk(<<Pair("string", <<DQ>> \o EmitBoolean(key.text = <<"t">>, line).text \o <<DQ>>,
                          line, line, <<>>)>>, line)
      [] key.kind = "Int" ->
            EmitOk(<<Pair("string", <<DQ>> \o IntToString(key.int) \o <<DQ>>, line, line, <<>>)>>, line)
      [] key.kind = "Float" ->
            EmitOk(<<Pair("string", <<DQ>> \o key.text \o <<DQ>>, line, line, <<>>)>>, line)
      [] OTHER -> EmitErr("KeyTypeError")

\* the line breaks inside a written text
LineBreaks(text) == Cardinality({k \in 1..Len(text) : text[k] = NL})

\* JsonEmitter::writeln: the line the text goes on with
Writeln(p, line) == IF p.compact THEN line ELSE line + 1

RECURSIVE EmitBytes(_, _, _, _, _)
\* JsonEmitter::emit_bytes: the loop over the bytes, "," and a line break
\* between two of them
EmitBytes(p, bytes, pos, line, toks) ==
    IF pos > Len(bytes) THEN EmitOk(toks, line)
    ELSE LET sep == IF pos > 1 THEN <<TokComma(line)>> ELSE <<>>
             at == IF pos > 1 THEN Writeln(p, line) ELSE line
         IN EmitBytes(p, bytes, pos + 1, at,
                      toks \o sep \o <<Pair("number", ToString(bytes[pos]), at, at, <<>>)>>)

\* an entry of a Mapping whose key is a Comment: a member that holds
\* comments and nothing else
IsCommentEntry(m) == m.kind = "Fragment" /\ ~HasValue(m)

\* JsonEmitter::emit_mapping: the counter comments when the loop reaches
\* the entry at pos
CommentsBefore(members, pos) ==
    Cardinality({k \in 1..(pos - 1) : IsCommentEntry(members[k])})

RECURSIVE EmitNode(_, _, _)
RECURSIVE EmitFragment(_, _, _, _, _, _)
RECURSIVE EmitMembers(_, _, _, _, _, _)

\* the children of a Fragment one after the other; in a member of a
\* Mapping (need_key) the first child that is not a Comment is the key
EmitFragment(p, kids, pos, line, need_key, toks) ==
    IF pos > Len(kids) THEN EmitOk(toks, line)
    ELSE LET d == kids[pos]
             r == IF d.kind = "Comment" THEN EmitComment(p, d.text, line)
                  ELSE IF need_key THEN EmitKey(p, d, line)
                  ELSE EmitNode(p, d, line)
         IN IF ~r.ok THEN r
            ELSE EmitFragment(p, kids, pos + 1, r.line,
                              need_key /\ d.kind = "Comment", toks \o r.toks)

\* JsonEmitter::emit_sequence / emit_mapping: the loop over the members;
\* "," and a line break are written before member i of a Sequence when
\* i > 0, and before entry i of a Mapping when i - comments > 0
EmitMembers(p, rule, members, pos, line, toks) ==
    IF pos > Len(members) THEN EmitOk(toks, line)
    ELSE LET i == pos - 1
             comments == IF rule = "object" THEN CommentsBefore(members, pos) ELSE 0
             sep == IF i - comments > 0 THEN <<TokComma(line)>> ELSE <<>>
             at == IF i - comments > 0 THEN Writeln(p, line) ELSE line
             m == members[pos]
             r == IF m.kind = "Fragment"
                  THEN EmitFragment(p, m.kids, 1, at, rule = "object", <<>>)
                  ELSE IF rule = "object" THEN EmitErr("fmt::Error")
                  ELSE EmitNode(p, m, at)
         IN IF ~r.ok THEN r
            ELSE EmitMembers(p, rule, members, pos + 1, r.line, toks \o sep \o r.toks)

\* JsonEmitter::emit_node; the strings of the model's Documents are
\* StrFormat::Standard, which emit_string writes with emit_string_strict
EmitNode(p, node, line) ==
    CASE node.kind = "Comment" -> EmitComment(p, node.text, line)
      [] node.kind \in {"String", "StaticStr"} ->
            LET text == EmitStringStrict(node.text)
                last == line + LineBreaks(text)
            IN EmitOk(<<Pair("string", text, line, last, <<>>)>>, last)
      [] node.kind = "Boolean" -> EmitOk(<<EmitBoolean(node.text = <<"t">>, line)>>, line)
      [] node.kind = "Int" -> EmitOk(<<EmitInt(p, node.int, line)>>, line)
      [] node.kind = "Null" ->
            EmitOk(<<Pair("null", <<"n", "u", "l", "l">>, line, line, <<>>)>>, line)
      [] node.kind \in {"Mapping", "Sequence"} ->
            LET rule == IF node.kind = "Mapping" THEN "object" ELSE "array"
                r == EmitMembers(p, rule, node.kids, 1, Writeln(p, line), <<>>)
            IN IF ~r.ok THEN r
               ELSE EmitOk(<<Pair(rule, <<>>, line, Writeln(p, r.line), r.toks)>>,
                           Writeln(p, r.line))
      [] node.kind = "Bytes" ->
            LET r == EmitBytes(p, node.text, 1, Writeln(p, line), <<>>)
            IN EmitOk(<<Pair("array", <<>>, line, Writeln(p, r.line), r.toks)>>,
                      Writeln(p, r.line))
      [] node.kind = "Compact" -> EmitNode([p EXCEPT !.compact = TRUE], node.kids[1], line)
      [] node.kind = "Fragment" -> EmitFragment(p, node.kids, 1, line, FALSE, <<>>)
      [] OTHER -> EmitErr("fmt::Error")

\* impl Display for Json
EmitText(dialect, document) == EmitNode(Emitter(dialect), document, 0)

(***************************************************************************)
(* The deserializer (src/src/de.rs) and the conversions of document.rs it  *)
(* uses.  The target type is given by a value of that type (shape), of     *)
(* which only the kinds and the integer types are read; the visitors are   *)
(* those serde derives for the type.                                       *)
(***************************************************************************)
\* parse_bool
ParseBool(v) ==
    IF v \in {<<"t", "r", "u", "e">>, <<"T", "r", "u", "e">>, <<"T", "R", "U", "E">>}
    THEN DeOk(VBool(TRUE))
    ELSE IF v \in {<<"f", "a", "l", "s", "e">>, <<"F", "a", "l", "s", "e">>,
                   <<"F", "A", "L", "S", "E">>}
    THEN DeOk(VBool(FALSE))
    ELSE DeErr("StructureError")

\* impl TryFrom<&Document> for bool
TryIntoBool(node) ==
    LET p == AsValue(node)
        d == p.docs[1]
    IN IF ~p.ok THEN DeErr(p.err)
       ELSE CASE d.kind = "Boolean" -> DeOk(VBool(d.text = <<"t">>))
              [] d.kind \in {"String", "StaticStr"} -> ParseBool(d.text)
              [] OTHER -> DeErr("StructureError")

\* impl_int_conv!: TryFrom<&Document> for the primitive type ty; the
\* model's Documents hold no Float
TryIntoInt(node, ty, checks) ==
    LET p == AsValue(node)
        d == p.docs[1]
        o == FromStrRadixIn(d.text, 0, checks)
    IN IF ~p.ok THEN DeErr(p.err)
       ELSE CASE d.kind = "Int" -> DeOk(VInt(ty, IntInto(d.int, ty)))
              [] d.kind \in {"String", "StaticStr"} ->
                    CASE o.st = "ok" -> DeOk(VInt(ty, IntInto(o.int, ty)))
                      [] o.st = "err" -> DeErr("ParseIntError")
                      [] o.st = "panic" -> DeErr("panic")
              [] OTHER -> DeErr("StructureError")

\* Document::as_str
AsStr(node) ==
    LET p == AsValue(node)
        d == p.docs[1]
    IN IF ~p.ok THEN DeErr(p.err)
       ELSE IF d.kind \in {"String", "StaticStr"} THEN DeOk(VStr(d.text))
       ELSE DeErr("StructureError")

\* impl Deserialize for Document taking the node whatever is under it
DeserializeDocumentValueOnly(node, driver) ==
    IF node.kind \in {"Mapping", "Sequence"}
    THEN DeOk(VDoc([node EXCEPT !.kids = FilterHasValue(@)]))
    ELSE DeOk(VDoc(node))

\* impl Deserialize for Document; node is the doc of the Deserializer
DeserializeDocument(node, driver) ==
    IF IsDeserializer(driver) THEN DeOk(VDoc(node))
    ELSE DeErr("Deserializing document nodes is only supported with serde_annotate::Deserializer")

RECURSIVE Deserialize(_, _, _)
RECURSIVE FromDocument(_, _, _)
RECURSIVE VisitSeq(_, _, _, _)
RECURSIVE VisitMap(_, _, _, _, _)

\* Deserializer::from_document(doc), then T::deserialize
FromDocument(node, shape, checks) ==
    LET p == AsValue(node)
    IN IF ~p.ok THEN DeErr(p.err) ELSE Deserialize(p.docs[1], shape, checks)

\* SeqAccess::next_element_seed, called by the visitor once for every
\* element of the target: docs are the value-bearing children that are left
VisitSeq(docs, shapes, checks, got) ==
    IF Len(got) = Len(shapes) THEN DeOk(VSeq(got))
    ELSE IF docs = <<>> THEN DeErr("invalid length")
    ELSE LET r == FromDocument(Head(docs), shapes[Len(got) + 1], checks)
         IN IF ~r.ok THEN r
            ELSE VisitSeq(Tail(docs), shapes, checks, Append(got, r.v))

\* MapAccess::next_key_seed / next_value_seed, called by the visitor of a
\* struct with the fields names: got[k] is the value read for field k
VisitMap(docs, names, shapes, checks, got) ==
    IF docs = <<>>
    THEN IF \E k \in 1..Len(got) : got[k] = NoValue THEN DeErr("missing field")
         ELSE DeOk(VSeq(got))
    ELSE LET kv == AsKv(Head(docs))
             key == FromDocument(kv.docs[1], VStr(<<>>), checks)
             k == CHOOSE k \in 1..Len(names) : names[k] = key.v.s
             r == FromDocument(kv.docs[2], shapes[k], checks)
         IN IF ~kv.ok THEN DeErr(kv.err)
            ELSE IF ~key.ok THEN key
            ELSE IF ~\E x \in 1..Len(names) : names[x] = key.v.s
            THEN DeErr("panic")
            ELSE IF got[k] # NoValue THEN DeErr("duplicate field")
            ELSE IF ~r.ok THEN r
            ELSE VisitMap(Tail(docs), names, shapes, checks, [got EXCEPT ![k] = r.v])

\* T::deserialize(&mut Deserializer { doc }) for the type of shape
Deserialize(node, shape, checks) ==
    LET Fields == SubSeq(FieldNames, 1, Len(shape.kids))
        Blank == [k \in 1..Len(shape.kids) |-> NoValue]
        \* deserialize_seq
        seq(d) == IF d.kind = "Sequence"
                  THEN VisitSeq(FilterHasValue(d.kids), shape.kids, checks, <<>>)
                  ELSE DeErr("StructureError")
        \* deserialize_map
        map(d) == IF d.kind = "Mapping"
                  THEN VisitMap(FilterHasValue(d.kids), Fields, shape.kids, checks, Blank)
                  ELSE DeErr("StructureError")
        with(r) == IF r.ok THEN DeOk([shape EXCEPT !.kids = r.v.kids]) ELSE r
        p == AsValue(node)
        d == p.docs[1]
        \* Enum::new and EnumAccess::variant_seed
        ev == IF Len(d.kids) = 1 THEN AsKv(d.kids[1]) ELSE DocErr("StructureError")
        name == FromDocument(ev.docs[1], VStr(<<>>), checks)
        var == AsValue(ev.docs[2])
    IN CASE shape.t = "bool" -> TryIntoBool(node)
         [] shape.t = "int" -> TryIntoInt(node, shape.ty, checks)
         [] shape.t = "str" -> AsStr(node)
         [] shape.t = "option" ->
               \* deserialize_option
               IF ~p.ok THEN DeErr(p.err)
               ELSE IF d.kind = "Null" THEN DeOk(VNone(shape.kids[1]))
               ELSE LET r == Deserialize(node, shape.kids[1], checks)
                    IN IF r.ok THEN DeOk(VSome(r.v)) ELSE r
         [] shape.t = "doc" -> DeserializeDocument(node, "serde_annotate")
         [] shape.t = "bytes" ->
               \* deserialize_bytes / deserialize_byte_buf: unimplemented!()
               DeErr("panic")
         [] shape.t = "seq" -> with(seq(node))
         [] shape.t = "struct" -> with(map(node))
         [] shape.t = "tuple_struct" -> with(seq(node))
         [] shape.t = "newtype_struct" ->
               \* deserialize_newtype_struct: visit_newtype_struct(self)
               LET r == Deserialize(node, shape.kids[1], checks)
               IN IF r.ok THEN DeOk([shape EXCEPT !.kids = <<r.v>>]) ELSE r
         [] shape.t = "map" ->
               \* deserialize_map with the visitor of a map
               IF node.kind # "Mapping" THEN DeErr("StructureError")
               ELSE IF Len(FilterHasValue(node.kids)) # 1 THEN DeErr("entries")
               ELSE LET kv == AsKv(FilterHasValue(node.kids)[1])
                        k == FromDocument(kv.docs[1], shape.kids[1], checks)
                        v == FromDocument(kv.docs[2], shape.kids[2], checks)
                    IN IF ~kv.ok THEN DeErr(kv.err)
                       ELSE IF ~k.ok THEN k
                       ELSE IF ~v.ok THEN v
                       ELSE DeOk(VMap(k.v, v.v))
         [] shape.t \in VariantKinds ->
               \* deserialize_enum
               IF ~p.ok THEN DeErr(p.err)
               ELSE IF d.kind \in {"String", "StaticStr"}
               THEN IF d.text # shape.s THEN DeErr("unknown variant")
                    ELSE IF shape.t = "unit_variant" THEN DeOk(shape)
                    ELSE DeErr("invalid type")
               ELSE IF d.kind # "Mapping" THEN DeErr("StructureError")
               ELSE IF ~ev.ok THEN DeErr(ev.err)
               ELSE IF ~name.ok THEN name
               ELSE IF name.v.s # shape.s THEN DeErr("unknown variant")
               ELSE IF ~var.ok /\ shape.t \in {"tuple_variant", "struct_variant"}
               THEN DeErr(var.err)
               ELSE CASE shape.t = "unit_variant" -> DeErr("unreachable: unit_variant")
                      [] shape.t = "newtype_variant" ->
                            LET r == FromDocument(ev.docs[2], shape.kids[1], checks)
                            IN IF r.ok THEN DeOk([shape EXCEPT !.kids = <<r.v>>]) ELSE r
                      [] shape.t = "tuple_variant" -> with(seq(var.docs[1]))
                      [] shape.t = "struct_variant" -> with(map(var.docs[1]))

(***************************************************************************)
(* The state of a component that is not running.                           *)
(***************************************************************************)
NoOrig == [kind |-> "none", ty |-> U(NarrowBits), v |-> 0, text |-> <<>>, radix |-> 0]

DocIdle ==
    /\ doc = Null
    /\ dop = "idle"
    /\ dres = DocErr("")

TextIdle ==
    /\ tstage = "idle"
    /\ tsrc = TokEOI
    /\ tflags = "default"
    /\ tchecks = FALSE
    /\ tval = NoValue
    /\ tdoc = Null
    /\ tdialect = "-"
    /\ tres = PErr("")
    /\ tback = DeErr("")

IntIdle ==
    /\ istage = "idle"
    /\ int = NoInt
    /\ itext = <<>>
    /\ iorig = NoOrig
    /\ iarg = "None"
    /\ iprim = 0

SerIdle ==
    /\ sstage = "idle"
    /\ sval = NoValue
    /\ sdrv = "-"
    /\ sres = SerErr("")
    /\ sback = DeErr("")

HexIdle ==
    /\ hstage = "idle"
    /\ hdata = <<>>
    /\ hformat = "Standard"
    /\ htext = <<>>
    /\ hres = HexErr("")

\* no builder
NoJson == [kind |-> "-", cfg |-> ToJson, document |-> Null]

EmitIdle ==
    /\ estage = "idle"
    /\ ejson = NoJson
    /\ eout = EmitErr("")

\* a DocPathIter with nothing left
NoIter == [stack |-> <<>>, aggregate |-> <<>>, path |-> <<>>, mutable |-> FALSE]

PathIdle ==
    /\ pstage = "idle"
    /\ pdoc = Null
    /\ piter = NoIter
    /\ pout = <<>>

\* the threads of the program
MaxThreads == 2

Threads == 1..MaxThreads

\* Option<CastFn>: None
NoCast == "None"

\* where a thread is in Annotator::lookup, and the typename it looks up
RegAt(at, key) == [at |-> at, key |-> key]

RegIdle ==
    /\ rpc = [t \in Threads |-> RegAt("idle", "")]
    /\ rcell = "empty"
    /\ rtable = {}
    /\ rinv = <<>>
    /\ rnext = 0
    /\ rlock = {}
    /\ rres = [t \in Threads |-> NoCast]
    /\ rbuilds = 0

MapIdle ==
    /\ mstage = "idle"
    /\ mser = SerializeMapNew(SerNew(NoValue))
    /\ mcalls = <<>>
    /\ mres = SerErr("")

LaterIdle ==
    /\ SerIdle
    /\ HexIdle
    /\ EmitIdle
    /\ PathIdle
    /\ RegIdle
    /\ MapIdle

(***************************************************************************)
(* The Integer pipeline: a caller builds an Int from a primitive or from a *)
(* literal, formats it, parses the text again and converts it back.        *)
(***************************************************************************)
\* digits of input literals: decimal, octal, both hex cases
DigitAlphabet == {"0", "1", "7", "9", "a", "F"}

ShortDigits == SeqsUpTo(DigitAlphabet, MaxDigits)

\* binary digit strings long enough to overflow the widest type and to
\* exceed BITS digits
LongBinDigits == {d \in SeqsUpTo({"0", "1"}, WideBits + 1) : Len(d) > MaxDigits}

Signs == {<<>>, <<"+">>, <<"-">>}

Prefixes == {<<>>, <<"0", "b">>, <<"0", "o">>, <<"0", "x">>, <<"0", "X">>}

Literals ==
    {s \o p \o t \o d : s \in Signs, p \in Prefixes, t \in Signs, d \in ShortDigits}
    \cup {s \o p \o d : s \in Signs, p \in {<<>>, <<"0", "b">>}, d \in LongBinDigits}

\* the widths new_with_padding is called with: none, one digit more than
\* fits a nibble, the natural width
Paddings == {0, 3, UsizeMax}

\* the state of the other components, which the Integer pipeline never touches
IntOthers == <<dvars, tvars, later>>

IntInit ==
    /\ IntIdle
    /\ DocIdle
    /\ TextIdle
    /\ LaterIdle

\* Int::new / Int::new_padded / Int::new_with_padding on a primitive
IntNewAct ==
    /\ istage = "idle"
    /\ \E ty \in IntTypes, b \in Bases, w \in Paddings :
        \E v \in ValuesOf(ty) :
            /\ int' = NewWithPadding(ty, v, b, w)
            /\ iorig' = [NoOrig EXCEPT !.kind = "prim", !.ty = ty, !.v = v]
    /\ istage' = "new"
    /\ UNCHANGED <<itext, iarg, iprim>>
    /\ UNCHANGED IntOthers

\* Int::from_str_radix on a literal
IntFromStrAct ==
    /\ istage = "idle"
    /\ \E t \in Literals, r \in Radixes :
        /\ r # 0 => Len(t) <= MaxDigits + 3
        /\ \E o \in FromStrRadix(t, r) :
            /\ int' = o.int
            /\ istage' = CASE o.st = "ok" -> "parsed"
                            [] o.st = "err" -> "err"
                            [] o.st = "panic" -> "panic"
        /\ iorig' = [NoOrig EXCEPT !.kind = "lit", !.text = t, !.radix = r]
        /\ itext' = t
    /\ UNCHANGED <<iarg, iprim>>
    /\ UNCHANGED IntOthers

\* Int::to_string (impl Display)
IntToStringAct ==
    /\ istage \in {"new", "parsed"}
    /\ itext' = IntToString(int)
    /\ istage' = "shown"
    /\ UNCHANGED <<int, iorig, iarg, iprim>>
    /\ UNCHANGED IntOthers

\* Int::format(base)
IntFormatAct ==
    /\ istage \in {"new", "parsed"}
    /\ \E ob \in OptBases :
        /\ itext' = Format(int, ob)
        /\ iarg' = ob
    /\ istage' = "formatted"
    /\ UNCHANGED <<int, iorig, iprim>>
    /\ UNCHANGED IntOthers

\* Int::from_str_radix(text, 0) on the text of an Int built from a primitive
IntReparseAct ==
    /\ istage = "shown"
    /\ iorig.kind = "prim"
    /\ \E o \in FromStrRadix(itext, 0) :
        /\ int' = o.int
        /\ istage' = CASE o.st = "ok" -> "reparsed"
                        [] o.st = "err" -> "rerr"
                        [] o.st = "panic" -> "rpanic"
    /\ UNCHANGED <<itext, iorig, iarg, iprim>>
    /\ UNCHANGED IntOthers

\* <primitive>::from(Int)
IntIntoAct ==
    /\ istage = "reparsed"
    /\ iprim' = IntInto(int, iorig.ty)
    /\ istage' = "done"
    /\ UNCHANGED <<int, itext, iorig, iarg>>
    /\ UNCHANGED IntOthers

IntNext ==
    \/ IntNewAct
    \/ IntFromStrAct
    \/ IntToStringAct
    \/ IntFormatAct
    \/ IntReparseAct
    \/ IntIntoAct

SpecInt == IntInit /\ [][IntNext]_vars

(***************************************************************************)
(* Claims about the Integer container.                                     *)
(***************************************************************************)
\* C6: for every primitive v and base b, parsing the text of Int::new(v, b)
\* with from_str_radix(text, 0) succeeds, and converting the result to v's
\* type gives v back.
C6_IntegerTextRoundTrip ==
    iorig.kind = "prim" =>
        /\ istage \notin {"rerr", "rpanic"}
        /\ istage = "done" => iprim = iorig.v

\* C7: Int::format(None) formats in the Int's own preferred base, that is,
\* format(None) equals format(Some(base())).
C7_FormatNoneUsesPreferredBase ==
    (istage = "formatted" /\ iarg = "None") => itext = Format(int, int.base)

UpperChar(c) ==
    CASE c = "a" -> "A" [] c = "b" -> "B" [] c = "c" -> "C"
      [] c = "d" -> "D" [] c = "e" -> "E" [] c = "f" -> "F"
      [] OTHER -> c

LowerChar(c) ==
    CASE c = "B" -> "b" [] c = "O" -> "o" [] c = "X" -> "x" [] OTHER -> c

HasSign(t) == t # <<>> /\ Head(t) \in {"+", "-"}

SignFree(t) == \A k \in 1..Len(t) : t[k] \notin {"+", "-"}

Unsigned(t) == IF HasSign(t) THEN Tail(t) ELSE t

\* whether the (unsigned) literal carries a 0b / 0o / 0x prefix
HasBasePrefix(t) ==
    Len(t) >= 2 /\ t[1] = "0" /\ t[2] \in {"b", "B", "o", "O", "x", "X"}

\* the base prefix of a literal or text form, lower-cased; <<>> for decimal
PrefixOf(t) ==
    LET u == Unsigned(t)
    IN IF HasBasePrefix(u) THEN <<"0", LowerChar(u[2])>> ELSE <<>>

\* the characters after the sign and the base prefix
BodyOf(t) ==
    LET u == Unsigned(t) IN IF HasBasePrefix(u) THEN Skip2(u) ELSE u

\* the number of digits of a literal or text form
DigitCount(t) == Cardinality({k \in 1..Len(BodyOf(t)) : DigitOf(BodyOf(t)[k]) >= 0})

\* a literal with its prefix letter lower-cased and hex digits upper-cased
CaseNormal(t) == PrefixOf(t) \o [k \in 1..Len(BodyOf(t)) |-> UpperChar(BodyOf(t)[k])]

RECURSIVE DropLeadingZeros(_)
DropLeadingZeros(d) ==
    IF Len(d) > 1 /\ Head(d) = "0" THEN DropLeadingZeros(Tail(d)) ELSE d

LiteralShown == istage = "shown" /\ iorig.kind = "lit" /\ iorig.radix = 0

MagnitudeOf(X, r) ==
    LET outs == FromStrRadix(X, r)
    IN IF \A o \in outs : o.st = "ok"
       THEN LET v == (CHOOSE o \in outs : TRUE).int.value.v
            IN IF v < 0 THEN -v ELSE v
       ELSE -1

\* C9: for every X (no sign of its own) that from_str_radix accepts with
\* magnitude m, from_str_radix("-" + X) fails with a parse error or yields
\* exactly -m and never panics; from_str_radix("+" + X) yields m.
C9_SignedLiterals ==
    LET t == iorig.text
        X == Tail(t)
        m == MagnitudeOf(X, iorig.radix)
    IN (iorig.kind = "lit" /\ istage \in {"parsed", "err", "panic"}
        /\ HasSign(t) /\ ~HasSign(X) /\ m >= 0) =>
           /\ istage # "panic"
           /\ (t[1] = "-" /\ istage = "parsed") => int.value.v = -m
           /\ t[1] = "+" => (istage = "parsed" /\ int.value.v = m)

(***************************************************************************)
(* Document queries: a caller builds a Document from the enum's variants   *)
(* and applies as_value, as_kv or has_value to it.                         *)
(***************************************************************************)
CChar == <<"c">>

DocLeaves == {Comment(CChar, "Standard"), String(<<"a">>, "Standard"), Null, Fragment(<<>>)}

DocSiblings == {Comment(CChar, "Standard"), String(<<"b">>, "Standard")}

DocOthers == <<ivars, tvars, later>>

DocInit ==
    /\ DocIdle
    /\ IntIdle
    /\ TextIdle
    /\ LaterIdle

\* a scalar or an empty Fragment
DocLeafAct ==
    /\ dop = "idle"
    /\ \E d \in DocLeaves : doc' = d
    /\ dop' = "build"
    /\ UNCHANGED <<dres, DocOthers>>

\* Document::Compact(Box::new(doc))
DocCompactAct ==
    /\ dop = "build"
    /\ Depth(doc) < MaxDepth
    /\ doc' = Compact(doc)
    /\ UNCHANGED <<dop, dres, DocOthers>>

\* Document::Fragment(vec![doc]), possibly after a comment
DocFragmentAct ==
    /\ dop = "build"
    /\ Depth(doc) < MaxDepth
    /\ \E pre \in {<<>>, <<Comment(CChar, "Standard")>>} : doc' = Fragment(pre \o <<doc>>)
    /\ UNCHANGED <<dop, dres, DocOthers>>

\* push one more child onto a Fragment
DocPushAct ==
    /\ dop = "build"
    /\ doc.kind = "Fragment"
    /\ Len(doc.kids) < MaxFrag
    /\ \E d \in DocSiblings : doc' = Fragment(Append(doc.kids, d))
    /\ UNCHANGED <<dop, dres, DocOthers>>

DocAsValueAct ==
    /\ dop = "build"
    /\ dres' = AsValue(doc)
    /\ dop' = "as_value"
    /\ UNCHANGED <<doc, DocOthers>>

DocAsKvAct ==
    /\ dop = "build"
    /\ dres' = AsKv(doc)
    /\ dop' = "as_kv"
    /\ UNCHANGED <<doc, DocOthers>>

DocHasValueAct ==
    /\ dop = "build"
    /\ dres' = DocBool(HasValue(doc))
    /\ dop' = "has_value"
    /\ UNCHANGED <<doc, DocOthers>>

DocNext ==
    \/ DocLeafAct
    \/ DocCompactAct
    \/ DocFragmentAct
    \/ DocPushAct
    \/ DocAsValueAct
    \/ DocAsKvAct
    \/ DocHasValueAct

SpecDoc == DocInit /\ [][DocNext]_vars

\* value-bearing, as the claim words it: never a Comment, a Compact iff its
\* content is, a Fragment iff some child is, everything else is
RECURSIVE ValueBearing(_)
ValueBearing(d) ==
    IF d.kind = "Comment" THEN FALSE
    ELSE IF d.kind = "Compact" THEN ValueBearing(d.kids[1])
    ELSE IF d.kind = "Fragment" THEN {k \in 1..Len(d.kids) : ValueBearing(d.kids[k])} # {}
    ELSE TRUE

\* the positions of the value-bearing children of a Fragment
ValuePositions(d) == {k \in 1..Len(d.kids) : ValueBearing(d.kids[k])}

\* C10: on a Fragment, as_value succeeds iff exactly one child is
\* value-bearing and returns that child, as_kv succeeds iff exactly two are
\* and returns them in order, both fail with StructureError otherwise;
\* has_value is false for a Comment, has_value(x) for Compact(x), and true
\* for a Fragment iff some child is value-bearing.
C10_FragmentQueries ==
    LET P == ValuePositions(doc)
    IN /\ (dop = "as_value" /\ doc.kind = "Fragment") =>
            /\ dres.ok <=> Cardinality(P) = 1
            /\ dres.ok => dres.docs = <<doc.kids[CHOOSE k \in P : TRUE]>>
            /\ ~dres.ok => dres.err = "StructureError"
       /\ (dop = "as_kv" /\ doc.kind = "Fragment") =>
            /\ dres.ok <=> Cardinality(P) = 2
            /\ dres.ok =>
                 LET k1 == CHOOSE k \in P : \A j \in P : k <= j
                     k2 == CHOOSE k \in P : \A j \in P : j <= k
                 IN dres.docs = <<doc.kids[k1], doc.kids[k2]>>
            /\ ~dres.ok => dres.err = "StructureError"
       /\ dop = "has_value" => dres.bool = ValueBearing(doc)

\* C10 witness: as_kv has returned the key and the value of a Fragment
\* that starts with a comment and whose key is itself a wrapped node.
C10_Witness ==
    /\ dop = "as_kv"
    /\ dres.ok
    /\ doc.kids[1].kind = "Comment"
    /\ doc.kids[2].kind \in {"Fragment", "Compact"}
    /\ dres.docs = <<doc.kids[2], doc.kids[3]>>

(***************************************************************************)
(* The text pipeline: a text is written token by token, or emitted from a  *)
(* serialized user value; the parser turns it into a Document and the      *)
(* deserializer turns the Document into a value.                           *)
(***************************************************************************)
TextOthers == <<ivars, dvars, later>>

StrAlphabet == {"a", TAB, NL, DQ, BS}

\* strings of one control character, and strings with a character that is
\* escaped between two that are not
ControlStrings ==
    {<<c>> : c \in {CR, FF, BSP, SOH, US}}
    \cup {<<"a", c, "a">> : c \in {TAB, NL, DQ, BS, CR, FF, BSP, SOH, US}}

\* the values inside the aggregates
Leaves ==
    {VBool(TRUE), VInt(U(NarrowBits), 3), VInt(I(WideBits), MinOf(I(WideBits))),
     VStr(<<"a">>)}

\* the byte sequences of the fields of bytes: "A", and a NUL and 0xff
ByteFields == {<<65>>, <<0, 255>>}

\* a field of bytes with no bytes format, and with format = hexstr
BytesAnnotators == {0, 6}

\* the user values that are serialized
Values ==
    {VBool(b) : b \in BOOLEAN}
    \cup UNION {{VInt(ty, v) : v \in ValuesOf(ty)} : ty \in IntTypes}
    \cup {VStr(s) : s \in SeqsUpTo(StrAlphabet, MaxStr) \cup ControlStrings}
    \cup {VNone(w) : w \in Leaves} \cup {VSome(w) : w \in Leaves}
    \cup {VSome(VNone(VBool(TRUE)))}
    \cup {VSeq(xs) : xs \in SeqsUpTo(Leaves, MaxElems)}
    \cup {VStruct(ann, a, b) : ann \in 0..2, a \in Leaves, b \in Leaves}
    \cup {VVariant("unit_variant", <<>>)}
    \cup {VVariant("newtype_variant", <<x>>) : x \in Leaves}
    \cup {VVariant("tuple_variant", <<x, y>>) : x \in Leaves, y \in Leaves}
    \cup {VVariant("struct_variant", <<x>>) : x \in Leaves}
    \cup {VMap(k, v) : k \in {VStr(<<"a">>), VInt(U(NarrowBits), 3), VSeq(<<>>)},
                       v \in Leaves}

\* the user values with a field of bytes
BytesValues ==
    {VStruct(ann, VBytes(b), VBool(TRUE)) : ann \in BytesAnnotators, b \in ByteFields}

TextInit ==
    /\ TextIdle
    /\ IntIdle
    /\ DocIdle
    /\ LaterIdle

\* a text starts: a scalar, or the opening bracket of an array or object
TextOpenAct ==
    /\ tstage = "idle"
    /\ \E p \in ScalarTokens \cup {Pair(r, <<>>, 0, 0, <<>>) : r \in {"array", "object"}} :
        tsrc' = p
    /\ tstage' = "typing"
    /\ UNCHANGED <<tflags, tchecks, tval, tdoc, tdialect, tres, tback, TextOthers>>

\* the grammar delivers one more pair of the aggregate
TextFeedAct ==
    /\ tstage = "typing"
    /\ tsrc.rule \in {"array", "object"}
    /\ Len(tsrc.inner) < MaxToks
    /\ \E tok \in NextTokens(tsrc) :
        tsrc' = [tsrc EXCEPT !.inner = Append(@, tok), !.eline = tok.eline]
    /\ UNCHANGED <<tstage, tflags, tchecks, tval, tdoc, tdialect, tres, tback, TextOthers>>

\* Relax::from_str on the text, for a Relax made by one of the presets or
\* with a field set by the caller
TextParseAct ==
    /\ tstage \in {"typing", "emitted"}
    /\ IsComplete(tsrc)
    /\ \E preset \in PresetNames \cup {"no_trailing"} :
        /\ tflags' = preset
        /\ tres' = HandlePair(Preset(preset), tchecks, TextPair(tsrc))
    /\ tstage' = "parsed"
    /\ UNCHANGED <<tsrc, tchecks, tval, tdoc, tdialect, tback, TextOthers>>

\* serde_annotate::serialize(value), in a build with or without overflow
\* checks
TextSerializeAct ==
    /\ tstage = "idle"
    /\ \/ tval' \in Values
       \/ tval' \in BytesValues
    /\ tdoc' = SerializeValue(tval')
    /\ tchecks' \in BOOLEAN
    /\ tstage' = "serialized"
    /\ UNCHANGED <<tsrc, tflags, tdialect, tres, tback, TextOthers>>

\* doc.to_json().to_string(), to_json5 or to_hjson; to_string panics when
\* the emitter returns an error
TextEmitAct ==
    /\ tstage = "serialized"
    /\ \E dialect \in Dialects :
        LET r == EmitText(dialect, tdoc)
        IN /\ tdialect' = dialect
           /\ IF r.ok /\ Len(r.toks) = 1
              THEN tsrc' = r.toks[1] /\ tstage' = "emitted"
              ELSE tsrc' = tsrc /\ tstage' = "emit_failed"
    /\ UNCHANGED <<tflags, tchecks, tval, tdoc, tres, tback, TextOthers>>

\* Deserializer::from_document on the parsed Document, then T::deserialize
\* for the type of the value
TextDeserializeAct ==
    /\ tstage = "parsed"
    /\ tval # NoValue
    /\ tres.ok
    /\ tback' = FromDocument(tres.doc, tval, tchecks)
    /\ tstage' = "deserialized"
    /\ UNCHANGED <<tsrc, tflags, tchecks, tval, tdoc, tdialect, tres, TextOthers>>

TextNext ==
    \/ TextOpenAct
    \/ TextFeedAct
    \/ TextParseAct
    \/ TextSerializeAct
    \/ TextEmitAct
    \/ TextDeserializeAct

SpecText == TextInit /\ [][TextNext]_vars

(***************************************************************************)
(* The serializer pipeline: a user value of an annotated type, or with     *)
(* fields of type Document, is serialized and the Document read back into  *)
(* the type; a Document is handed to the serializer or the deserializer of *)
(* this crate or of another one.                                           *)
(***************************************************************************)
SerOthers == <<ivars, dvars, tvars, hvars, evars, pvars, rvars, mvars>>

\* the Documents held by the fields of type Document
PassDocs ==
    {DocInt(IntNew(U(NarrowBits), 3, "Hex")), String(<<"a">>, "Multiline"), Null,
     Sequence(<<Comment(CChar, "Standard"), Boolean(TRUE)>>),
     Fragment(<<Comment(CChar, "Standard"), Boolean(TRUE)>>),
     Fragment(<<Comment(CChar, "Standard")>>),
     Compact(Sequence(<<>>)),
     Mapping(<<Fragment(<<Comment(CChar, "Standard"), String(<<"k">>, "Standard"),
                          Fragment(<<Boolean(FALSE), Comment(CChar, "Standard")>>)>>)>>)}

\* the numbers of the Annotate impls
AnnotatorIds == 0..(Len(Annotators) - 1)

\* the values of the first field
SerFirsts ==
    {VInt(U(NarrowBits), 3), VStr(<<"a">>), VBytes(<<>>), VBytes(<<65, 255>>),
     VSeq(<<VInt(U(NarrowBits), 3)>>),
     VAnnVariant("unit_variant", 0, <<>>),
     VAnnVariant("newtype_variant", 2, <<VInt(U(NarrowBits), 3)>>),
     VAnnVariant("newtype_variant", 11, <<VInt(U(NarrowBits), 3)>>)}
    \cup {VDoc(d) : d \in PassDocs}

\* the values of the second field
SerSeconds ==
    {VInt(U(NarrowBits), 3), VDoc(Fragment(<<Comment(CChar, "Standard"), Boolean(TRUE)>>))}

\* the user values that are serialized
SerValues ==
    SerFirsts
    \cup {VStruct(ann, a, b) : ann \in AnnotatorIds, a \in SerFirsts, b \in SerSeconds}
    \cup {VTupleStruct(ann, a, b) : ann \in AnnotatorIds, a \in SerFirsts, b \in SerSeconds}
    \cup {VNewtypeStruct(ann, a) : ann \in AnnotatorIds, a \in SerFirsts}
    \cup {VAnnVariant("unit_variant", ann, <<>>) : ann \in AnnotatorIds}
    \cup {VAnnVariant("newtype_variant", ann, <<a>>) : ann \in AnnotatorIds, a \in SerFirsts}
    \cup {VAnnVariant(kind, ann, <<a, b>>) :
            kind \in {"tuple_variant", "struct_variant"}, ann \in AnnotatorIds,
            a \in SerFirsts, b \in SerSeconds}
    \cup {VSeq(<<a, b>>) : a \in SerFirsts, b \in SerSeconds}
    \cup {VSome(a) : a \in SerFirsts}
    \cup {VMap(VStr(<<"a">>), a) : a \in SerFirsts}
    \cup {VStruct(ann, VNewtypeStruct(inner, VBytes(<<65, 255>>)), VInt(U(NarrowBits), 3)) :
            ann \in AnnotatorIds, inner \in AnnotatorIds}

SerInit ==
    /\ SerIdle
    /\ IntIdle
    /\ DocIdle
    /\ TextIdle
    /\ HexIdle
    /\ EmitIdle
    /\ PathIdle
    /\ RegIdle
    /\ MapIdle

\* serde_annotate::serialize(value)
SerSerializeAct ==
    /\ sstage = "idle"
    /\ \E v \in SerValues :
        /\ sval' = v
        /\ sres' = SerOk(SerializeValue(v))
    /\ sdrv' = "serde_annotate"
    /\ sstage' = "serialized"
    /\ UNCHANGED <<sback, SerOthers>>

\* Deserializer::from_document on the Document, then T::deserialize for the
\* type of the value
SerDeserializeAct ==
    /\ sstage = "serialized"
    /\ sres.ok
    /\ sback' = FromDocument(sres.doc, sval, FALSE)
    /\ sstage' = "deserialized"
    /\ UNCHANGED <<sval, sdrv, sres, SerOthers>>

\* Document::serialize(serializer), for the serializer of some crate
SerDocumentAct ==
    /\ sstage = "idle"
    /\ \E d \in PassDocs, driver \in Drivers :
        /\ sval' = VDoc(d)
        /\ sdrv' = driver
        /\ sres' = SerializeDocument(d, driver)
    /\ sstage' = "document_serialized"
    /\ UNCHANGED <<sback, SerOthers>>

\* Document::deserialize(deserializer), for the deserializer of some crate;
\* the Deserializer of this crate is one made by from_document
SerDocumentDeAct ==
    /\ sstage = "idle"
    /\ \E d \in PassDocs, driver \in Drivers :
        /\ sval' = VDoc(Null)
        /\ sdrv' = driver
        /\ sres' = SerOk(d)
        /\ sback' = IF IsDeserializer(driver)
                    THEN FromDocument(d, VDoc(Null), FALSE)
                    ELSE DeserializeDocument(d, driver)
    /\ sstage' = "document_deserialized"
    /\ UNCHANGED SerOthers

\* a Document put into n wrappers more: a Compact, or a Fragment that holds
\* it alone or next to a comment
RECURSIVE Wrapped(_, _)
Wrapped(S, n) ==
    IF n = 0 THEN S
    ELSE LET W == Wrapped(S, n - 1)
         IN W \cup {Compact(d) : d \in W}
              \cup {Fragment(<<d>>) : d \in W}
              \cup {Fragment(<<Comment(CChar, "Standard"), d>>) : d \in W}
              \cup {Fragment(<<d, Comment(CChar, "Standard")>>) : d \in W}

\* a scalar, a Sequence and a Mapping, each with the type it is read into:
\* String, (String,) and a struct with the fields a and b
ReadTargets ==
    << [doc |-> String(<<"a">>, "Standard"), shape |-> VStr(<<>>)],
       [doc |-> Sequence(<<String(<<"a">>, "Standard")>>), shape |-> VSeq(<<VStr(<<>>)>>)],
       [doc |-> Mapping(<<Fragment(<<String(<<"a">>, "Standard"), Boolean(TRUE)>>),
                          Fragment(<<String(<<"b">>, "Standard"), Boolean(FALSE)>>)>>),
        shape |-> VStruct(0, VBool(FALSE), VBool(FALSE))] >>

\* T::deserialize(&mut Deserializer::from_document(&doc)?) on a hand-built
\* Document, for the type T of the node inside, or for T = Document, which
\* receives the node the Deserializer holds
SerReadAct ==
    /\ sstage = "idle"
    /\ \E k \in DOMAIN ReadTargets :
        \E d \in Wrapped({ReadTargets[k].doc}, MaxDepth) :
            \E shape \in {ReadTargets[k].shape, VDoc(Null)} :
                /\ sval' = shape
                /\ sres' = SerOk(d)
                /\ sback' = FromDocument(d, shape, FALSE)
    /\ sdrv' = "serde_annotate"
    /\ sstage' = "read"
    /\ UNCHANGED SerOthers

SerNext ==
    \/ SerSerializeAct
    \/ SerDeserializeAct
    \/ SerDocumentAct
    \/ SerDocumentDeAct
    \/ SerReadAct

SpecSer == SerInit /\ [][SerNext]_vars

\* the kinds of the values that have fields
FieldKinds == {"struct", "tuple_struct", "tuple_variant", "struct_variant"}

\* the MemberId of field k of a value of kind t
MemberOf(t, k) ==
    IF t \in {"struct", "struct_variant"} THEN MemberName(k) ELSE MemberIndex(k - 1)

\* the variant the fields of v belong to
VariantOf(v) == IF v.t \in VariantKinds THEN v.s ELSE NoVariant

\* the Document that the serialization d of the value v holds for the
\* value of field k (element k of a sequence)
StoredField(v, d, k) ==
    LET payload == d.kids[1].kids[Len(d.kids[1].kids)]
        body == IF v.t \in VariantKinds
                THEN IF payload.kind = "Compact" THEN payload.kids[1] ELSE payload
                ELSE d
        m == body.kids[k]
    IN CASE v.t \in {"struct", "struct_variant"} -> m.kids[Len(m.kids)]
         [] v.t \in {"tuple_struct", "tuple_variant"} ->
               IF AnnotationOf(v, VariantOf(v), MemberOf(v.t, k)).comment
               THEN m.kids[2] ELSE m
         [] OTHER -> m

\* the node of the serialization d of the value v that the deserializer
\* is made from for field k: the value of the entry of a Mapping, the
\* element of a Sequence with the comment the serializer put before it
ElementNode(v, d, k) ==
    LET payload == d.kids[1].kids[Len(d.kids[1].kids)]
        body == IF v.t \in VariantKinds
                THEN IF payload.kind = "Compact" THEN payload.kids[1] ELSE payload
                ELSE d
    IN IF v.t \in {"struct", "struct_variant"} THEN StoredField(v, d, k)
       ELSE body.kids[k]

\* the fields of type Document of the serialized value
DocFields ==
    IF sval.t \in FieldKinds \cup {"seq"}
    THEN {k \in 1..Len(sval.kids) : sval.kids[k].t = "doc"}
    ELSE {}

\* C11 (as stated): a field of type Document is stored as the Document it
\* holds, whatever the annotation of the field, and reading the
\* serialization back gives the field the node stored at its position,
\* comments and fragments included.
C11_PassthroughIdentity ==
    /\ sstage \in {"serialized", "deserialized"} =>
        \A k \in DocFields : StoredField(sval, sres.doc, k) = sval.kids[k].kids[1]
    /\ (sstage = "deserialized" /\ sback.ok) =>
        \A k \in DocFields : sback.v.kids[k] = VDoc(StoredField(sval, sres.doc, k))

\* every element of the serialization carries a value, so that the n-th
\* element read is the n-th element stored
AllCarryValue ==
    sval.t \in {"seq", "tuple_struct", "tuple_variant"} =>
        \A k \in 1..Len(sval.kids) : HasValue(ElementNode(sval, sres.doc, k))

\* C11 (amended): a field of type Document is stored as the Document it
\* holds, whatever the annotation of the field; reading the serialization
\* back gives the field the value of the node at its position (as_value:
\* what is under the Compact wrappers of the node or, for a Fragment, its
\* one child that carries a value), comments and fragments inside that
\* value included.
C11_PassthroughValue ==
    /\ sstage \in {"serialized", "deserialized"} =>
        \A k \in DocFields : StoredField(sval, sres.doc, k) = sval.kids[k].kids[1]
    /\ (sstage = "deserialized" /\ sback.ok /\ AllCarryValue) =>
        \A k \in DocFields :
            LET p == AsValue(ElementNode(sval, sres.doc, k))
            IN p.ok /\ sback.v.kids[k] = VDoc(p.docs[1])

\* a struct whose field a is annotated format = compact and holds a
\* Document with a comment inside, read back with the comment in place
C11_Witness ==
    /\ sstage = "deserialized"
    /\ sback.ok
    /\ sval.t = "struct"
    /\ Annotators[sval.n + 1].field.format = "Compact"
    /\ sval.kids[1] = VDoc(Sequence(<<Comment(CChar, "Standard"), Boolean(TRUE)>>))
    /\ sback.v.kids[1] = sval.kids[1]
    /\ sval.kids[2].t = "doc"
    /\ sback.v.kids[2] = VDoc(Boolean(TRUE))

\* C12: a Document given to the serializer or the deserializer of another
\* crate gets the custom error with the fixed message: no panic, and no
\* Document comes back.
C12_ForeignDrivers ==
    /\ (sstage = "document_serialized" /\ sdrv # "serde_annotate") =>
        /\ ~sres.ok
        /\ sres.err = "Serializing document nodes is only supported with serde_annotate::AnnotatedSerializer"
    /\ (sstage = "document_deserialized" /\ sdrv # "serde_annotate") =>
        /\ ~sback.ok
        /\ sback.v = NoValue
        /\ sback.err = "Deserializing document nodes is only supported with serde_annotate::Deserializer"

\* a Document refused by the serializer of another crate
C12_Witness ==
    /\ sstage = "document_serialized"
    /\ sdrv = "serde_json"
    /\ ~sres.ok
    /\ sval.kids[1].kind = "Sequence"

\* C20 (as stated): the Document stored for a field the annotator gives
\* Format::Compact is Compact(v), v being what the field's value serializes
\* to; the Document of any other field is not wrapped.
C20_CompactPerField ==
    (sstage \in {"serialized", "deserialized"} /\ sval.t \in FieldKinds) =>
        \A k \in 1..Len(sval.kids) :
            LET stored == StoredField(sval, sres.doc, k)
                kid == sval.kids[k]
                compact == [SerNew(AsAnnotate(kid)) EXCEPT !.compact = TRUE]
            IN IF AnnotationOf(sval, VariantOf(sval), MemberOf(sval.t, k)).format = "Compact"
               THEN stored = Compact(Serialize(kid, compact))
               ELSE stored.kind = "Compact" => SerializeValue(kid).kind = "Compact"

\* the entry or element that the serialization d of the variant value v
\* holds for field k, with the comment the serializer put before it
VariantMember(v, d, k) ==
    LET payload == d.kids[1].kids[Len(d.kids[1].kids)]
        body == IF payload.kind = "Compact" THEN payload.kids[1] ELSE payload
    IN body.kids[k]

\* C21 (as stated): for every field of a tuple variant and of a struct
\* variant the serializer asks the annotator with the name of the active
\* variant and the member id of the field, so that the field is stored as
\* it serializes under the format the annotator has for (variant, member)
\* and is preceded by a comment exactly when the annotator has one.
C21_VariantQueries ==
    (sstage \in {"serialized", "deserialized"}
        /\ sval.t \in {"tuple_variant", "struct_variant"}) =>
        /\ QueryVariant(sval) = sval.s
        /\ \A k \in 1..Len(sval.kids) :
            LET ser == SerNew(AsAnnotate(sval))
                member == MemberOf(sval.t, k)
                opt == SerAnnotate(ser, sval.s, member)
                frame == [(IF opt.some THEN opt.ser ELSE ser)
                            EXCEPT !.annotator = AsAnnotate(sval.kids[k])]
                node == Serialize(sval.kids[k], frame)
                c == SerComment(ser, sval.s, member)
            IN VariantMember(sval, sres.doc, k) =
                IF sval.t = "struct_variant"
                THEN Fragment(c \o <<StaticStr(FieldNames[k]), node>>)
                ELSE IF c # <<>> THEN Fragment(c \o <<node>>) ELSE node

\* C22 (as stated): a unit variant serializes to String(variant name,
\* Standard) in every context: as the value serialized, and as the value
\* of a field whatever format the annotator gives the field.
C22_UnitVariantStandard ==
    sstage \in {"serialized", "deserialized"} =>
        /\ sval.t = "unit_variant" => sres.doc = String(sval.s, "Standard")
        /\ sval.t \in FieldKinds =>
            \A k \in 1..Len(sval.kids) :
                sval.kids[k].t = "unit_variant" =>
                    StoredField(sval, sres.doc, k) = String(sval.kids[k].s, "Standard")

\* the frame with the overlay annotate answers, if it answers one
Overlay(ser, opt) == IF opt.some THEN opt.ser ELSE ser

\* the frame the first field of the serialized value is serialized under,
\* and under it the field of a newtype struct held by that field
FirstFrame ==
    LET ser == SerNew(AsAnnotate(sval))
        outer == Overlay(ser, SerAnnotate(ser, QueryVariant(sval), MemberOf(sval.t, 1)))
        kid == sval.kids[1]
        at == [outer EXCEPT !.annotator = AsAnnotate(kid)]
    IN IF kid.t = "newtype_struct"
       THEN Overlay(at, SerAnnotate(at, NoVariant, MemberIndex(0)))
       ELSE at

\* the byte sequence held by the first field of the serialized value, or
\* by the newtype struct that field holds
FirstBytes ==
    LET kid == sval.kids[1]
    IN IF kid.t = "newtype_struct" THEN kid.kids[1] ELSE kid

\* the serialized value has a first field that holds a byte sequence
HoldsBytes ==
    /\ sstage \in {"serialized", "deserialized"}
    /\ sval.t \in FieldKinds
    /\ FirstBytes.t = "bytes"

\* C23: a byte sequence serialized under a frame whose bytes format is
\* HexStr is stored as String(hex text, Standard), under Hexdump or Xxd as
\* String(encoded text, Multiline), under Standard as Bytes of the same
\* bytes, whatever the integer base, the string format and the compactness
\* of the frame.
C23_BytesFormats ==
    HoldsBytes =>
        LET b == FirstBytes.s
            stored == StoredField(sval, sres.doc, 1)
        IN CASE FirstFrame.bytesformat = "HexStr" -> stored = String(Hexstr(b), "Standard")
             [] FirstFrame.bytesformat = "Hexdump" -> stored = String(Hexdump(b), "Multiline")
             [] FirstFrame.bytesformat = "Xxd" -> stored = String(Xxd(b, 2), "Multiline")
             [] FirstFrame.bytesformat = "Standard" -> stored = Bytes(b)

\* bytes under a frame whose integer base is Hex and whose bytes format is
\* HexStr: a struct whose field is annotated format = hex holds a newtype
\* struct annotated format = hexstr
C23_Witness ==
    /\ HoldsBytes
    /\ sval.kids[1].t = "newtype_struct"
    /\ FirstFrame.base = "Hex"
    /\ FirstFrame.bytesformat = "HexStr"
    /\ FirstBytes.s = <<65, 255>>
    /\ StoredField(sval, sres.doc, 1) = String(<<"4", "1", "f", "f">>, "Standard")

\* the node under every Compact and every single-value Fragment around it
RECURSIVE Peeled(_)
Peeled(d) ==
    CASE d.kind = "Compact" -> Peeled(d.kids[1])
      [] d.kind = "Fragment" /\ Cardinality(ValuePositions(d)) = 1 ->
            Peeled(d.kids[CHOOSE k \in ValuePositions(d) : TRUE])
      [] OTHER -> d

\* C26 (as stated): the node as_value gives the Deserializer, which a
\* target of type Document receives as it is, is never a Comment, a Compact
\* or a Fragment, and a scalar, a Sequence or a Mapping inside any nesting
\* of Compact and Fragment wrappers is read as the bare node is.
C26_Peeling ==
    sstage = "read" =>
        /\ (sval.t = "doc" /\ sback.ok) =>
               sback.v.kids[1].kind \notin {"Comment", "Compact", "Fragment"}
        /\ sback = FromDocument(Peeled(sres.doc), sval, FALSE)

(***************************************************************************)
(* The map serializer: the Serialize impl of a map type calls              *)
(* serialize_map, then serialize_key, serialize_value and serialize_entry  *)
(* on the SerializeMap it got, and end.  The calls made are kept in        *)
(* mcalls.                                                                 *)
(***************************************************************************)
MapOthers == <<ivars, dvars, tvars, svars, hvars, evars, pvars, rvars>>

\* most calls made on one SerializeMap before end
MaxCalls == 4

\* a call of serialize_key, serialize_value or serialize_entry with its
\* arguments; ok: whether it returned Ok
MapCall(op, key, value, ok) == [op |-> op, key |-> key, value |-> value, ok |-> ok]

\* the serializers serialize_map is called on
MapSerializers == {SerNew(NoValue), [SerNew(NoValue) EXCEPT !.base = "Hex"]}

\* the keys and the values, with whether their Serialize impl returns Ok
MapKeys ==
    {[v |-> VStr(<<"a">>), ok |-> TRUE], [v |-> VInt(U(NarrowBits), 3), ok |-> TRUE],
     [v |-> VStr(<<"a">>), ok |-> FALSE]}

MapValues ==
    {[v |-> VBool(TRUE), ok |-> TRUE], [v |-> VStr(<<"b">>), ok |-> TRUE],
     [v |-> VBool(TRUE), ok |-> FALSE]}

MapInit ==
    /\ MapIdle
    /\ IntIdle
    /\ DocIdle
    /\ TextIdle
    /\ SerIdle
    /\ HexIdle
    /\ EmitIdle
    /\ PathIdle
    /\ RegIdle

\* AnnotatedSerializer::serialize_map
MapOpenAct ==
    /\ mstage = "idle"
    /\ \E ser \in MapSerializers : mser' = SerializeMapNew(ser)
    /\ mstage' = "open"
    /\ UNCHANGED <<mcalls, mres, MapOthers>>

\* SerializeMap::serialize_key
MapKeyAct ==
    /\ mstage = "open"
    /\ Len(mcalls) < MaxCalls
    /\ \E k \in MapKeys :
        /\ mser' = MapSerializeKey(mser, k.v, k.ok)
        /\ mcalls' = Append(mcalls, MapCall("key", k.v, NoValue, k.ok))
    /\ UNCHANGED <<mstage, mres, MapOthers>>

\* SerializeMap::serialize_value: it panics when next_key is None
MapValueAct ==
    /\ mstage = "open"
    /\ Len(mcalls) < MaxCalls
    /\ \E v \in MapValues :
        /\ mcalls' = Append(mcalls, MapCall("value", NoValue, v.v, v.ok))
        /\ IF mser.next_key.some
           THEN mser' = MapSerializeValue(mser, v.v, v.ok) /\ mstage' = mstage
           ELSE mser' = mser /\ mstage' = "panic"
    /\ UNCHANGED <<mres, MapOthers>>

\* SerializeMap::serialize_entry
MapEntryAct ==
    /\ mstage = "open"
    /\ Len(mcalls) < MaxCalls
    /\ \E k \in MapKeys, v \in MapValues :
        /\ k.ok \/ v.ok
        /\ mser' = MapSerializeEntry(mser, k.v, k.ok, v.v, v.ok)
        /\ mcalls' = Append(mcalls, MapCall("entry", k.v, v.v, k.ok /\ v.ok))
    /\ UNCHANGED <<mstage, mres, MapOthers>>

\* SerializeMap::end
MapEndAct ==
    /\ mstage = "open"
    /\ mres' = MapEnd(mser)
    /\ mstage' = "ended"
    /\ UNCHANGED <<mser, mcalls, MapOthers>>

MapNext ==
    \/ MapOpenAct
    \/ MapKeyAct
    \/ MapValueAct
    \/ MapEntryAct
    \/ MapEndAct

SpecMap == MapInit /\ [][MapNext]_vars

\* the calls are serialize_key / serialize_value pairs and serialize_entry
\* calls, and every one returned Ok
PairsAndEntries(calls) ==
    \A i \in DOMAIN calls :
        /\ calls[i].ok
        /\ calls[i].op = "value" => (i > 1 /\ calls[i - 1].op = "key")
        /\ calls[i].op = "key" => (i < Len(calls) /\ calls[i + 1].op = "value")

RECURSIVE CompletedPairs(_, _)
\* one Fragment [key, value] for every serialize_entry call and for every
\* serialize_value call, which takes the key of the call before it, in
\* the order of the calls
CompletedPairs(m, calls) ==
    IF calls = <<>> THEN <<>>
    ELSE LET n == Len(calls)
             before == CompletedPairs(m, SubSeq(calls, 1, n - 1))
         IN CASE calls[n].op = "entry" ->
                   Append(before, MapFragment(m, Serialize(calls[n].key, m.serializer),
                                              calls[n].value))
              [] calls[n].op = "value" ->
                   Append(before, MapFragment(m, Serialize(calls[n - 1].key, m.serializer),
                                              calls[n].value))
              [] OTHER -> before

\* C29: for any sequence of serialize_key / serialize_value pairs and
\* serialize_entry calls followed by end, the Mapping returned holds exactly
\* one Fragment [key, value] per completed pair, in call order, each value
\* with the key of the serialize_key just before it; and after a
\* serialize_value call, whatever the calls before it and whether or not it
\* returned Ok, no key is pending, so that no key is paired with a second
\* value.
C29_MapProtocol ==
    /\ (mstage = "ended" /\ PairsAndEntries(mcalls)) =>
           mres = SerOk(Mapping(CompletedPairs(mser, mcalls)))
    /\ (mstage \in {"open", "ended"} /\ mcalls # <<>>
            /\ mcalls[Len(mcalls)].op = "value") =>
           ~mser.next_key.some

\* C29 witness: an entry, then a key and its value, then end: a Mapping of
\* two Fragments
C29_Witness ==
    /\ mstage = "ended"
    /\ PairsAndEntries(mcalls)
    /\ Len(mcalls) = 3
    /\ mcalls[1].op = "entry"
    /\ mcalls[3].op = "value"
    /\ mcalls[1].key # mcalls[2].key
    /\ mres.ok
    /\ Len(mres.doc.kids) = 2

(***************************************************************************)
(* The bytes codec pipeline: a byte sequence is written by to_string in    *)
(* one of the three formats, or a hex string is typed by hand, and         *)
(* from_str reads the text.                                                *)
(***************************************************************************)
HexOthers == <<ivars, dvars, tvars, svars, evars, pvars, rvars, mvars>>

\* length of the byte sequences enumerated in full
MaxBytes == 2

\* length of the hex strings typed by hand
MaxHexText == 4

\* the bytes: NUL, line feed, space, 'A', 'a', '|', DEL and 0xff
ByteSamples == {0, 10, 32, 65, 97, 124, 127, 255}

\* one byte short of a line of the dumps, a full line, one byte and one
\* line and a byte more
LongLengths == {15, 16, 17, 33}

HexData ==
    SeqsUpTo(ByteSamples, MaxBytes)
    \cup {[k \in 1..n |-> b] : n \in LongLengths, b \in {10, 32, 97, 255}}

HexTextAlphabet == {"0", "x", "a", "F", " ", "g"}

HexTexts == SeqsUpTo(HexTextAlphabet, MaxHexText)

HexInit ==
    /\ HexIdle
    /\ IntIdle
    /\ DocIdle
    /\ TextIdle
    /\ SerIdle
    /\ EmitIdle
    /\ PathIdle
    /\ RegIdle
    /\ MapIdle

\* hexdump::to_string(data, format), for a format that has a text
HexEncodeAct ==
    /\ hstage = "idle"
    /\ \E data \in HexData, format \in BytesFormats \ {"Standard"} :
        /\ hdata' = data
        /\ hformat' = format
        /\ htext' = HexToString(data, format)
    /\ hstage' = "encoded"
    /\ UNCHANGED <<hres, HexOthers>>

\* a hex string written by hand
HexTypeAct ==
    /\ hstage = "idle"
    /\ htext' \in HexTexts
    /\ hstage' = "typed"
    /\ UNCHANGED <<hdata, hformat, hres, HexOthers>>

\* hexdump::from_str(text)
HexDecodeAct ==
    /\ hstage \in {"encoded", "typed"}
    /\ hres' = HexFromStr(htext)
    /\ hstage' = IF hstage = "encoded" THEN "decoded" ELSE "read"
    /\ UNCHANGED <<hdata, hformat, htext, HexOthers>>

HexNext ==
    \/ HexEncodeAct
    \/ HexTypeAct
    \/ HexDecodeAct

SpecHex == HexInit /\ [][HexNext]_vars

\* C13 (as stated): from_str gives back the bytes to_string was given, for
\* every byte sequence, the empty one included, and each of the formats
\* HexStr, Hexdump and Xxd.
C13_BytesRoundTrip ==
    hstage = "decoded" => (hres.ok /\ hres.bytes = hdata)

\* the text without its 0x or 0X
HexBody(text) ==
    IF Len(text) >= 2 /\ text[1] = "0" /\ text[2] \in {"x", "X"}
    THEN SubSeq(text, 3, Len(text)) ELSE text

\* a hex string: an optional 0x, then hex digits and white space
IsHexString(text) ==
    \A k \in 1..Len(HexBody(text)) : HexBody(text)[k] \in XDigits \cup {" ", TAB, NL}

\* the hex digits of a hex string
HexDigitsOf(text) == SelectSeq(HexBody(text), LAMBDA c : c \in XDigits)

\* C14 (as stated): from_str on a hex string with an odd number of hex
\* digits returns a HexdumpError, never bytes with the unpaired digit
\* dropped.
C14_OddDigitsRejected ==
    (hstage = "read" /\ IsHexString(htext) /\ Len(HexDigitsOf(htext)) % 2 = 1)
        => ~hres.ok

\* C15: a field of bytes that is serialized with no bytes format (a
\* sequence of numbers in the text) or with the format hexstr (a string),
\* written as JSON5 or HJSON and parsed by the permissive parser, is emitted
\* and parsed without error and deserializes into the same bytes, without
\* an error or a panic.
C15_BytesFieldRoundTrip ==
    (/\ tval.t = "struct"
     /\ tval.kids[1].t = "bytes"
     /\ tdialect \in {"json5", "hjson"}
     /\ tflags = "default") =>
        /\ tstage # "emit_failed"
        /\ tstage = "parsed" => tres.ok
        /\ tstage = "deserialized" => (tback.ok /\ tback.v = tval)

(***************************************************************************)
(* The emitter pipeline: a Document is turned into a Json or a Yaml, the   *)
(* builder methods of Json change its configuration, and Display writes    *)
(* the text.  Of the YAML emitter the Result is modelled, not the text.    *)
(***************************************************************************)
EmitOthers == <<ivars, dvars, tvars, svars, hvars, pvars, rvars, mvars>>

\* Json::bases
JsonBases(cfg, b) == [cfg EXCEPT !.bases = @ \cup b]

\* Json::literals, were it to leave the allowed bases alone
JsonLiteralsOnly(cfg, b) == [cfg EXCEPT !.literals = @ \cup b]

\* Json::literals
JsonLiterals(cfg, b) == [cfg EXCEPT !.bases = @ \cup b, !.literals = @ \cup b]

\* Json::strict_numeric_limits
JsonStrictNumericLimits(cfg, b) == [cfg EXCEPT !.strict_numeric_limits = b]

RECURSIVE YamlEmitNode(_)
RECURSIVE YamlEmitAll(_, _)
RECURSIVE YamlEmitMember(_, _, _, _)
RECURSIVE YamlEmitMapping(_, _)

\* the nodes from pos on are emitted one after the other; the first error
\* ends the emission
YamlEmitAll(nodes, pos) ==
    IF pos > Len(nodes) THEN EmitOk(<<>>, 0)
    ELSE LET r == YamlEmitNode(nodes[pos])
         IN IF ~r.ok THEN r ELSE YamlEmitAll(nodes, pos + 1)

\* YamlEmitter::emit_mapping, the loop over the nodes of one member: the
\* first node that is not a Comment is the key, the next one the value
YamlEmitMember(nodes, pos, key_done, val_done) ==
    IF pos > Len(nodes) THEN EmitOk(<<>>, 0)
    ELSE LET node == nodes[pos]
             r == YamlEmitNode(node)
         IN IF node.kind = "Comment"
            THEN YamlEmitMember(nodes, pos + 1, key_done, val_done)
            ELSE IF ~key_done
            THEN IF pos = Len(nodes) THEN EmitErr("StructureError")
                 ELSE IF ~r.ok THEN r
                 ELSE YamlEmitMember(nodes, pos + 1, TRUE, val_done)
            ELSE IF ~val_done
            THEN IF ~r.ok THEN r ELSE YamlEmitMember(nodes, pos + 1, key_done, TRUE)
            ELSE YamlEmitMember(nodes, pos + 1, key_done, val_done)

\* YamlEmitter::emit_mapping, the loop over the members
YamlEmitMapping(members, pos) ==
    IF pos > Len(members) THEN EmitOk(<<>>, 0)
    ELSE LET nodes == Fragments(members[pos])
             r == YamlEmitMember(nodes.docs, 1, FALSE, FALSE)
         IN IF ~nodes.ok THEN EmitErr(nodes.err)
            ELSE IF ~r.ok THEN r
            ELSE YamlEmitMapping(members, pos + 1)

\* YamlEmitter::emit_node: whether the node is written or an error returned
YamlEmitNode(node) ==
    CASE node.kind = "Mapping" -> YamlEmitMapping(node.kids, 1)
      [] node.kind \in {"Sequence", "Fragment", "Compact"} -> YamlEmitAll(node.kids, 1)
      [] OTHER -> EmitOk(<<>>, 0)

\* the integers that are emitted: the ends of each type and the ends of
\* the range of the integers that are legal in JSON
EmitIntValues(ty) ==
    {MinOf(ty), MaxOf(ty), 0, 3}
    \cup ({-Pow2(JsonSafeBits), 1 - Pow2(JsonSafeBits), Pow2(JsonSafeBits) - 1,
           Pow2(JsonSafeBits)} \cap ValuesOf(ty))

EmitInts ==
    UNION {{NewWithPadding(ty, v, base, width) :
                v \in EmitIntValues(ty), base \in Bases, width \in {0, 4}} :
           ty \in IntTypes}

\* the kinds of node a key of a Mapping is made of
EmitKeys ==
    <<String(<<"a">>, "Standard"), DocInt(IntNew(U(NarrowBits), 3, "Hex")),
      Boolean(TRUE), Null, Sequence(<<>>), Sequence(<<Boolean(TRUE)>>),
      Mapping(<<>>), Bytes(<<65>>), Compact(String(<<"a">>, "Standard")),
      Compact(Null), Compact(Compact(Boolean(TRUE)))>>

\* a Mapping of one member with the key, after a comment or not, and a
\* Mapping with a member that has a key and no value
EmitMappings ==
    [k \in DOMAIN EmitKeys |-> Mapping(<<Fragment(<<EmitKeys[k], Boolean(TRUE)>>)>>)]
    \o [k \in DOMAIN EmitKeys |->
            Mapping(<<Fragment(<<Comment(<<"c">>, "Standard"), EmitKeys[k], Null>>)>>)]
    \o <<Mapping(<<Fragment(<<EmitKeys[1]>>)>>), Mapping(<<EmitKeys[1]>>)>>

\* an entry of a Mapping with the key name, and an entry that is a comment
EmitEntry(name) == Fragment(<<String(<<name>>, "Standard"), Boolean(TRUE)>>)

EmitCommentEntry == Fragment(<<Comment(<<"c">>, "Standard")>>)

\* Mappings of two key/value entries: with no comment, with a comment
\* entry first, between the two and last, and with a comment inside the
\* second member
EmitCommented ==
    <<Mapping(<<EmitEntry("a"), EmitEntry("b")>>),
      Mapping(<<EmitCommentEntry, EmitEntry("a"), EmitEntry("b")>>),
      Mapping(<<EmitEntry("a"), EmitCommentEntry, EmitEntry("b")>>),
      Mapping(<<EmitEntry("a"), EmitEntry("b"), EmitCommentEntry>>),
      Mapping(<<EmitEntry("a"),
                Fragment(<<Comment(<<"c">>, "Standard"), String(<<"b">>, "Standard"),
                           Boolean(TRUE)>>)>>)>>

EmitInit ==
    /\ EmitIdle
    /\ IntIdle
    /\ DocIdle
    /\ TextIdle
    /\ SerIdle
    /\ HexIdle
    /\ PathIdle
    /\ RegIdle
    /\ MapIdle

\* Document::to_json, to_json5, to_hjson and to_yaml of the document d
EmitTo(d) ==
    \/ \E dialect \in Dialects :
        ejson' = [kind |-> "json", cfg |-> Emitter(dialect), document |-> d]
    \/ ejson' = [kind |-> "yaml", cfg |-> ToJson, document |-> d]

EmitToAct ==
    /\ estage = "idle"
    /\ \/ \E i \in EmitInts : EmitTo(DocInt(i))
       \/ \E k \in DOMAIN EmitMappings : EmitTo(EmitMappings[k])
       \/ \E k \in DOMAIN EmitCommented :
            \/ EmitTo(EmitCommented[k])
            \/ EmitTo(Compact(EmitCommented[k]))
    /\ estage' = "built"
    /\ UNCHANGED <<eout, EmitOthers>>

\* Json::bases with a slice of one base
EmitBasesAct ==
    /\ estage = "built"
    /\ ejson.kind = "json"
    /\ \E b \in Bases : ejson' = [ejson EXCEPT !.cfg = JsonBases(@, {b})]
    /\ UNCHANGED <<estage, eout, EmitOthers>>

\* Json::literals with a slice of one base
EmitLiteralsAct ==
    /\ estage = "built"
    /\ ejson.kind = "json"
    /\ \E b \in Bases : ejson' = [ejson EXCEPT !.cfg = JsonLiterals(@, {b})]
    /\ UNCHANGED <<estage, eout, EmitOthers>>

\* Json::strict_numeric_limits
EmitStrictAct ==
    /\ estage = "built"
    /\ ejson.kind = "json"
    /\ \E b \in BOOLEAN : ejson' = [ejson EXCEPT !.cfg = JsonStrictNumericLimits(@, b)]
    /\ UNCHANGED <<estage, eout, EmitOthers>>

\* impl Display for Json and for Yaml: the Result of emit_node
EmitDisplayAct ==
    /\ estage = "built"
    /\ eout' = IF ejson.kind = "json" THEN EmitNode(ejson.cfg, ejson.document, 0)
               ELSE YamlEmitNode(ejson.document)
    /\ estage' = "emitted"
    /\ UNCHANGED <<ejson, EmitOthers>>

EmitNext ==
    \/ EmitToAct
    \/ EmitBasesAct
    \/ EmitLiteralsAct
    \/ EmitStrictAct
    \/ EmitDisplayAct

SpecEmit == EmitInit /\ [][EmitNext]_vars

RECURSIVE KeyKind(_)
\* the kind of a key after unwrapping Compact and Fragment
KeyKind(key) ==
    IF key.kind = "Compact" THEN KeyKind(key.kids[1])
    ELSE IF key.kind = "Fragment" /\ AsValue(key).ok THEN KeyKind(AsValue(key).docs[1])
    ELSE IF key.kind = "StaticStr" THEN "String"
    ELSE key.kind

\* the key of the only member of the Mapping that is emitted
EmittedKey ==
    LET nodes == ejson.document.kids[1].kids
    IN SelectSeq(nodes, LAMBDA d : d.kind # "Comment")[1]

\* a Mapping of one member, a key and a value, is emitted
KeyEmitted ==
    /\ estage = "emitted"
    /\ ejson.document.kind = "Mapping"
    /\ Len(ejson.document.kids) = 1
    /\ AsKv(ejson.document.kids[1]).ok

\* C16 (as stated): emitting, as JSON, JSON5, HJSON or YAML, a Mapping with
\* a key that after unwrapping Compact is Null, Sequence, Mapping or Bytes
\* fails with KeyTypeError; a key that unwraps to String, Int or Boolean is
\* emitted successfully.
C16_KeyKinds ==
    KeyEmitted =>
        /\ KeyKind(EmittedKey) \in {"Null", "Sequence", "Mapping", "Bytes"}
              => (~eout.ok /\ eout.err = "KeyTypeError")
        /\ KeyKind(EmittedKey) \in {"String", "Int", "Boolean"} => eout.ok

\* |v| < 2^53
InSafeRange(v) == -Pow2(JsonSafeBits) < v /\ v < Pow2(JsonSafeBits)

\* an Int has been emitted as JSON, JSON5 or HJSON
IntEmitted ==
    /\ estage = "emitted"
    /\ ejson.kind = "json"
    /\ ejson.document.kind = "Int"

\* C17: an Int of preferred base b is written in decimal when b is not an
\* allowed base and in base b otherwise; the text is in double quotes iff b
\* is allowed and not a literal base, or strict_numeric_limits is on and the
\* value is not in the safe range |v| < 2^53; and after any calls of the
\* builder methods the literal bases are a subset of the allowed bases.
C17_IntRendering ==
    /\ ejson.cfg.literals \subseteq ejson.cfg.bases
    /\ IntEmitted =>
        LET i == ejson.document.int
            cfg == ejson.cfg
            digits == Convert(i.value, IF i.base \in cfg.bases THEN i.base ELSE "Dec",
                              i.width)
            quoted == \/ i.base \in cfg.bases /\ i.base \notin cfg.literals
                      \/ cfg.strict_numeric_limits /\ ~InSafeRange(i.value.v)
        IN /\ eout.ok
           /\ Len(eout.toks) = 1
           /\ eout.toks[1].text = IF quoted THEN <<DQ>> \o digits \o <<DQ>> ELSE digits
           /\ eout.toks[1].rule = IF quoted THEN "string" ELSE "number"

\* a binary Int outside the safe range has been written quoted in base 2,
\* which bases() allowed, with the limits switched off
C17_Witness ==
    /\ IntEmitted
    /\ ejson.document.int.base = "Bin"
    /\ "Bin" \in ejson.cfg.bases \ ejson.cfg.literals
    /\ "Hex" \in ejson.cfg.literals
    /\ ~ejson.cfg.strict_numeric_limits
    /\ ~InSafeRange(ejson.document.int.value.v)
    /\ eout.ok
    /\ Head(eout.toks[1].text) = DQ

(***************************************************************************)
(* The value-path iterator: iter_path makes a DocPathIter of a Document,   *)
(* and each call of next yields a path and a value node or ends the        *)
(* iteration.                                                              *)
(***************************************************************************)
PathOthers == <<ivars, dvars, tvars, svars, hvars, evars, rvars, mvars>>

\* DocPath::Name and DocPath::Index
PathName(n) == [seg |-> "Name", name |-> n, index |-> 0]

PathIndex(i) == [seg |-> "Index", name |-> <<>>, index |-> i]

\* usize::wrapping_add(1)
WrappingInc(i) == (i + 1) % (UsizeMax + 1)

\* Document::iter_path: a DocPathIter (mutable: FALSE)
IterPath(d) == [stack |-> <<<<d>>>>, aggregate |-> <<>>, path |-> <<>>, mutable |-> FALSE]

\* Document::iter_path_mut: a DocPathIterMut
IterPathMut(d) == [IterPath(d) EXCEPT !.mutable = TRUE]

\* what next returns: the iterator after the call and Some((path, value)),
\* None, or the panic of an expect
PathSome(it, path, d) ==
    [it |-> it, some |-> TRUE, path |-> path, doc |-> d, panic |-> FALSE]

PathNone(it) == [it |-> it, some |-> FALSE, path |-> <<>>, doc |-> Null, panic |-> FALSE]

PathPanic(it) == [it |-> it, some |-> FALSE, path |-> <<>>, doc |-> Null, panic |-> TRUE]

\* the last element of a sequence replaced
SetLast(seq, x) == [seq EXCEPT ![Len(seq)] = x]

DropLast(seq) == SubSeq(seq, 1, Len(seq) - 1)

RECURSIVE DocPathIterNext(_)
\* impl Iterator for DocPathIter and for DocPathIterMut: next.  The two
\* bodies differ in the borrows only (as_kv_mut, as_value_mut and
\* fragments_mut select the same nodes as as_kv, as_value and fragments)
DocPathIterNext(it) ==
    IF it.stack = <<>> THEN PathNone(it)
    ELSE LET top == it.stack[Len(it.stack)]
             val == Head(top)
             \* top.next() has advanced the iterator on top of the stack
             adv == [it EXCEPT !.stack = SetLast(@, Tail(top))]
             last == it.path[Len(it.path)]
             kv == AsKv(val)
             v == AsValue(val)
         IN IF top = <<>>
            THEN DocPathIterNext([it EXCEPT
                    !.stack = DropLast(@),
                    !.aggregate = IF @ = <<>> THEN @ ELSE DropLast(@),
                    !.path = IF it.aggregate # <<>> /\ it.aggregate[Len(it.aggregate)]
                             THEN DropLast(@) ELSE @])
            ELSE CASE val.kind = "Comment" -> DocPathIterNext(adv)
                   [] val.kind = "Mapping" ->
                        DocPathIterNext([adv EXCEPT !.stack = Append(@, val.kids),
                                             !.path = Append(@, PathName(<<>>)),
                                             !.aggregate = Append(@, TRUE)])
                   [] val.kind = "Sequence" ->
                        DocPathIterNext([adv EXCEPT !.stack = Append(@, val.kids),
                                             !.path = Append(@, PathIndex(UsizeMax)),
                                             !.aggregate = Append(@, TRUE)])
                   [] val.kind = "Compact" ->
                        DocPathIterNext([adv EXCEPT !.stack = Append(@, val.kids),
                                             !.aggregate = Append(@, FALSE)])
                   [] val.kind = "Fragment" ->
                        IF it.path # <<>> /\ last.seg = "Name"
                        THEN IF ~kv.ok THEN DocPathIterNext(adv)
                             ELSE IF ~AsStr(kv.docs[1]).ok THEN PathPanic(adv)
                             ELSE DocPathIterNext([adv EXCEPT
                                     !.path = SetLast(@, PathName(AsStr(kv.docs[1]).v.s)),
                                     !.stack = Append(@, <<kv.docs[2]>>),
                                     !.aggregate = Append(@, FALSE)])
                        ELSE IF it.path # <<>> /\ last.seg = "Index"
                        THEN IF ~v.ok THEN DocPathIterNext(adv)
                             ELSE DocPathIterNext([adv EXCEPT !.stack = Append(@, v.docs),
                                                       !.aggregate = Append(@, FALSE)])
                        ELSE DocPathIterNext([adv EXCEPT !.stack = Append(@, val.kids),
                                                  !.aggregate = Append(@, FALSE)])
                   [] OTHER ->
                        LET path == IF it.path # <<>> /\ last.seg = "Index"
                                    THEN SetLast(it.path, PathIndex(WrappingInc(last.index)))
                                    ELSE it.path
                        IN PathSome([adv EXCEPT !.path = path], path, val)

\* the nodes under the aggregates and the members of the Mappings
PathLeaves ==
    {DocInt(IntNew(U(NarrowBits), 1, "Dec")), Null, String(<<"s">>, "Standard")}

PathElems ==
    PathLeaves
    \cup {Sequence(<<>>), Sequence(<<Boolean(TRUE)>>),
          Sequence(<<Boolean(TRUE), Boolean(FALSE)>>),
          Mapping(<<Fragment(<<String(<<"k">>, "Standard"), Boolean(TRUE)>>)>>),
          Compact(Sequence(<<Boolean(TRUE)>>)),
          Fragment(<<Comment(<<"c">>, "Standard"), Boolean(TRUE)>>)}

PathKeys ==
    {String(<<"a">>, "Standard"), DocInt(IntNew(U(NarrowBits), 3, "Dec")),
     Boolean(TRUE), Doc("Float", <<"1", ".", "5">>, "", NoInt, <<>>)}

PathDocs ==
    PathElems
    \cup {Sequence(<<x, y>>) : x \in PathElems, y \in PathElems}
    \cup {Mapping(<<Fragment(<<k, x>>),
                    Fragment(<<Comment(<<"c">>, "Standard")>>),
                    Fragment(<<String(<<"b">>, "Standard"), y>>)>>) :
            k \in PathKeys, x \in PathElems, y \in PathLeaves}

PathInit ==
    /\ PathIdle
    /\ IntIdle
    /\ DocIdle
    /\ TextIdle
    /\ SerIdle
    /\ HexIdle
    /\ EmitIdle
    /\ RegIdle
    /\ MapIdle

\* Document::iter_path
PathIterAct ==
    /\ pstage = "idle"
    /\ \E d \in PathDocs :
        /\ pdoc' = d
        /\ piter' = IterPath(d)
    /\ pstage' = "iterating"
    /\ UNCHANGED <<pout, PathOthers>>

\* Document::iter_path_mut
PathIterMutAct ==
    /\ pstage = "idle"
    /\ \E d \in PathDocs :
        /\ pdoc' = d
        /\ piter' = IterPathMut(d)
    /\ pstage' = "iterating"
    /\ UNCHANGED <<pout, PathOthers>>

\* DocPathIter::next and DocPathIterMut::next
PathNextAct ==
    /\ pstage = "iterating"
    /\ LET r == DocPathIterNext(piter)
       IN /\ piter' = r.it
          /\ pout' = IF r.some THEN Append(pout, <<r.path, r.doc>>) ELSE pout
          /\ pstage' = IF r.panic THEN "panicked"
                       ELSE IF r.some THEN "iterating" ELSE "done"
    /\ UNCHANGED <<pdoc, PathOthers>>

PathNext ==
    \/ PathIterAct
    \/ PathIterMutAct
    \/ PathNextAct

SpecPath == PathInit /\ [][PathNext]_vars

RECURSIVE ValuePaths(_, _)
RECURSIVE ElementPaths(_, _, _, _)
RECURSIVE MemberPaths(_, _, _)

\* the value nodes of the elements of a Sequence from pos on; index is the
\* position of the element at pos among the elements with a value
ElementPaths(kids, pos, index, path) ==
    IF pos > Len(kids) THEN <<>>
    ELSE IF ~HasValue(kids[pos]) THEN ElementPaths(kids, pos + 1, index, path)
    ELSE ValuePaths(kids[pos], Append(path, PathIndex(index)))
         \o ElementPaths(kids, pos + 1, index + 1, path)

\* the value nodes of the values of the members of a Mapping from pos on
MemberPaths(kids, pos, path) ==
    IF pos > Len(kids) THEN <<>>
    ELSE IF ~AsKv(kids[pos]).ok THEN MemberPaths(kids, pos + 1, path)
    ELSE LET kv == AsKv(kids[pos]).docs
         IN ValuePaths(kv[2], Append(path, PathName(AsValue(kv[1]).docs[1].text)))
            \o MemberPaths(kids, pos + 1, path)

\* the value nodes under d that are not containers, in document order, each
\* with the Name or Index of every aggregate around it
ValuePaths(d, path) ==
    CASE d.kind = "Comment" -> <<>>
      [] d.kind = "Mapping" -> MemberPaths(d.kids, 1, path)
      [] d.kind = "Sequence" -> ElementPaths(d.kids, 1, 0, path)
      [] d.kind = "Compact" -> ValuePaths(d.kids[1], path)
      [] d.kind = "Fragment" ->
            Flatten([k \in DOMAIN d.kids |-> ValuePaths(d.kids[k], path)])
      [] OTHER -> <<(<<path, d>>)>>

\* C18 (as stated): iter_path yields every value node that is not a
\* container exactly once, in document order, with a path of one segment
\* per enclosing aggregate: Name(key) for a Mapping and Index(i) for a
\* Sequence, i the zero-based position of the element the node is in, also
\* when the elements of a Sequence are Mappings or Sequences.
C18_ValuePaths ==
    /\ pstage # "panicked"
    /\ pstage = "done" => pout = ValuePaths(pdoc, <<>>)

\* the stack of child iterators holds the iterator iter_path made and one
\* iterator per flag of aggregate, until both are empty
StacksInStep ==
    /\ pstage = "iterating" => Len(piter.stack) = Len(piter.aggregate) + 1
    /\ pstage = "done" => (piter.stack = <<>> /\ piter.aggregate = <<>>)

\* C30 (as stated): iter_path and iter_path_mut never panic on a Document
\* that satisfies the structural invariants, Mappings with Int, Float or
\* Boolean keys and Mappings with comment-only Fragments included, and the
\* stack of child iterators and the stack of aggregate flags stay in step,
\* one flag per pushed iterator, until the iteration ends.
C30_PathNeverPanics ==
    /\ pstage # "panicked"
    /\ StacksInStep

(***************************************************************************)
(* The annotation registry: the program is linked with the registrations   *)
(* of inventory, and its threads call Annotator::lookup, which initializes *)
(* the OnceCell ANNOTATORS on first use and reads the HashMap under the    *)
(* Mutex.                                                                  *)
(***************************************************************************)
RegOthers == <<ivars, dvars, tvars, svars, hvars, evars, pvars, mvars>>

\* inventory::submit!(Annotator::new(name, into_annotate))
Registration(name, cast) == [name |-> name, cast |-> cast]

\* what the program may be linked with, in the order inventory::iter gives:
\* nothing, two types (in either order), and one name registered twice
Inventories ==
    {<<>>,
     <<Registration("A", "cast_A"), Registration("B", "cast_B")>>,
     <<Registration("B", "cast_B"), Registration("A", "cast_A")>>,
     <<Registration("B", "cast_B"), Registration("A", "cast_A"),
       Registration("A", "cast_A2")>>}

\* the type names looked up; C is never registered
TypeNames == {"A", "B", "C"}

\* HashMap::get(typename).cloned()
TableGet(table, typename) ==
    IF \E a \in table : a.name = typename
    THEN (CHOOSE a \in table : a.name = typename).cast
    ELSE NoCast

\* OnceCell::get_or_init were it to return the cell while the initializer
\* of another thread is still running
CellReadyEarly(cell) == cell # "empty"

\* OnceCell::get_or_init returns the value of an initialized cell
CellReady(cell) == cell = "set"

RegInit ==
    /\ RegIdle
    /\ IntIdle
    /\ DocIdle
    /\ TextIdle
    /\ SerIdle
    /\ HexIdle
    /\ EmitIdle
    /\ PathIdle
    /\ MapIdle

\* the program starts, linked with its registrations
RegLinkAct ==
    /\ \A t \in Threads : rpc[t].at = "idle"
    /\ rinv' \in Inventories
    /\ rpc' = [t \in Threads |-> RegAt("ready", "")]
    /\ UNCHANGED <<rcell, rtable, rnext, rlock, rres, rbuilds, RegOthers>>

\* a thread calls Annotator::lookup(typename)
RegLookupAct(t) ==
    /\ rpc[t].at \in {"ready", "returned"}
    /\ \E typename \in TypeNames : rpc' = [rpc EXCEPT ![t] = RegAt("get_or_init", typename)]
    /\ rres' = [rres EXCEPT ![t] = NoCast]
    /\ UNCHANGED <<rcell, rtable, rinv, rnext, rlock, rbuilds, RegOthers>>

\* get_or_init finds the cell empty: the thread runs the initializer,
\* starting with HashMap::new(); the other threads wait
RegInitAct(t) ==
    /\ rpc[t].at = "get_or_init"
    /\ rcell = "empty"
    /\ rcell' = "running"
    /\ rtable' = {}
    /\ rnext' = 0
    /\ rpc' = [rpc EXCEPT ![t].at = "init"]
    /\ UNCHANGED <<rinv, rlock, rres, rbuilds, RegOthers>>

\* one turn of the loop of the initializer: casts.insert, and the panic on
\* a duplicated name, which leaves the cell empty
RegInsertAct(t) ==
    /\ rpc[t].at = "init"
    /\ rnext < Len(rinv)
    /\ LET a == rinv[rnext + 1]
       IN IF \E b \in rtable : b.name = a.name
          THEN /\ rcell' = "empty"
               /\ rtable' = {}
               /\ rnext' = 0
               /\ rpc' = [rpc EXCEPT ![t].at = "panicked"]
          ELSE /\ rtable' = rtable \cup {a}
               /\ rnext' = rnext + 1
               /\ UNCHANGED <<rcell, rpc>>
    /\ UNCHANGED <<rinv, rlock, rres, rbuilds, RegOthers>>

\* the initializer returns Mutex::new(casts) and the cell is set
RegSetAct(t) ==
    /\ rpc[t].at = "init"
    /\ rnext = Len(rinv)
    /\ rbuilds < MaxThreads
    /\ rcell' = "set"
    /\ rbuilds' = rbuilds + 1
    /\ rpc' = [rpc EXCEPT ![t].at = "lock"]
    /\ UNCHANGED <<rtable, rinv, rnext, rlock, rres, RegOthers>>

\* get_or_init returns the initialized cell, at once or after the wait
RegGetAct(t) ==
    /\ rpc[t].at = "get_or_init"
    /\ CellReady(rcell)
    /\ rpc' = [rpc EXCEPT ![t].at = "lock"]
    /\ UNCHANGED <<rcell, rtable, rinv, rnext, rlock, rres, rbuilds, RegOthers>>

\* Mutex::lock
RegLockAct(t) ==
    /\ rpc[t].at = "lock"
    /\ rlock = {}
    /\ rlock' = {t}
    /\ rpc' = [rpc EXCEPT ![t].at = "locked"]
    /\ UNCHANGED <<rcell, rtable, rinv, rnext, rres, rbuilds, RegOthers>>

\* annotators.get(typename).cloned(); the guard is dropped on return
RegReturnAct(t) ==
    /\ rpc[t].at = "locked"
    /\ rres' = [rres EXCEPT ![t] = TableGet(rtable, rpc[t].key)]
    /\ rlock' = rlock \ {t}
    /\ rpc' = [rpc EXCEPT ![t].at = "returned"]
    /\ UNCHANGED <<rcell, rtable, rinv, rnext, rbuilds, RegOthers>>

RegNext ==
    \/ RegLinkAct
    \/ \E t \in Threads : RegLookupAct(t)
    \/ \E t \in Threads : RegInitAct(t)
    \/ \E t \in Threads : RegInsertAct(t)
    \/ \E t \in Threads : RegSetAct(t)
    \/ \E t \in Threads : RegGetAct(t)
    \/ \E t \in Threads : RegLockAct(t)
    \/ \E t \in Threads : RegReturnAct(t)

SpecReg == RegInit /\ [][RegNext]_vars

\* the registrations as a set
Registered == {rinv[k] : k \in DOMAIN rinv}

\* C19: under any interleaving of the lookups of several threads the table
\* is built once, by the first lookup; a lookup reads the table only when
\* it is complete, and the complete table never changes; a lookup of a
\* registered type name returns the function registered for it, the same
\* for every thread, and a lookup of an unregistered name returns None.
C19_RegistryOnce ==
    /\ rbuilds <= 1
    /\ rcell = "set" => (rbuilds = 1 /\ rtable = Registered)
    /\ \A t \in Threads :
        /\ rpc[t].at \in {"lock", "locked", "returned"} => rcell = "set"
        /\ rpc[t].at = "returned" =>
            IF \E a \in Registered : a.name = rpc[t].key
            THEN \A a \in Registered : a.name = rpc[t].key => rres[t] = a.cast
            ELSE rres[t] = NoCast
    /\ \A t \in Threads, u \in Threads :
        (rpc[t].at = "returned" /\ rpc[u].at = "returned" /\ rpc[t].key = rpc[u].key)
            => rres[t] = rres[u]

\* one thread has got the function registered for A while another one
\* holds the Mutex for its own lookup, of B, in the table built once
C19_Witness ==
    /\ rbuilds = 1
    /\ \E t \in Threads, u \in Threads :
        /\ t # u
        /\ rpc[t].at = "returned"
        /\ rpc[t].key = "A"
        /\ rres[t] = "cast_A"
        /\ rpc[u].at = "locked"
        /\ rpc[u].key = "B"

(***************************************************************************)
(* Claims about the parser.                                                *)
(***************************************************************************)
\* the digit that identifies the token a node was parsed from
RECURSIVE TagOf(_)
TagOf(d) ==
    CASE d.kind \in {"Comment", "String"} -> IF d.text = <<>> THEN "" ELSE d.text[Len(d.text)]
      [] d.kind = "Int" -> Digit(d.int.value.v)
      [] OTHER -> IF d.kids = <<>> THEN "" ELSE TagOf(d.kids[1])

\* the nodes an element of a Sequence or Mapping holds
ItemsOf(e) == IF e.kind = "Fragment" THEN e.kids ELSE <<e>>

\* tokens a and b are in the same element of the aggregate d, a before b
Follows(d, a, b) ==
    \E x \in 1..Len(d.kids) :
        LET it == ItemsOf(d.kids[x])
        IN \E p, q \in 1..Len(it) :
              p < q /\ TagOf(it[p]) = Digit(a) /\ TagOf(it[q]) = Digit(b)

\* a hand-written array or object has been parsed and accepted
TypedAccepted ==
    /\ tstage = "parsed"
    /\ tval = NoValue
    /\ tsrc.rule \in {"array", "object"}
    /\ tres.ok

CommentPositions == {j \in 1..Len(tsrc.inner) : tsrc.inner[j].rule = "COMMENT"}

\* C2: a comment that follows a value (scalar or an aggregate of several
\* lines) on the line the value ends on is in the Fragment of that value,
\* after it.
C2_SameLineComment ==
    TypedAccepted =>
        \A j \in CommentPositions :
            LET i == PrevItem(tsrc.inner, j)
            IN (i # 0 /\ IsValueAt(tsrc, i)
                /\ tsrc.inner[j].line = tsrc.inner[i].eline)
               => Follows(tres.doc, i, j)

RECURSIVE Uses(_)
Uses(pair) ==
    LET t == pair.text
        u == IF t # <<>> /\ Head(t) \in {"+", "-"} THEN Tail(t) ELSE t
        inner == pair.inner
        items == ItemPositions(inner)
    IN CASE pair.rule = "COMMENT" ->
               IF StartsWith(t, <<"/", "*">>) THEN {"comment_block"}
               ELSE IF StartsWith(t, <<"/", "/">>) THEN {"comment_slash"}
               ELSE {"comment_hash"}
         [] pair.rule = "string" ->
               IF StartsWith(t, <<SQ, SQ, SQ>>) THEN {"string_hjson_multiline"}
               ELSE IF Head(t) \in {SQ, DQ}
               THEN (IF Head(t) = SQ THEN {"string_single_quote"} ELSE {})
                    \cup (IF Contains(t, <<BS, NL>>) THEN {"string_json5_multiline"} ELSE {})
               ELSE {"string_unquoted"}
         [] pair.rule \in {"identifier", "hjson_key"} -> {"string_ident"}
         [] pair.rule = "number" ->
               (IF Head(t) = "+" THEN {"number_plus"} ELSE {})
               \cup (IF StartsWith(u, <<"0", "x">>) THEN {"number_hex"} ELSE {})
               \cup (IF StartsWith(u, <<"0", "b">>) THEN {"number_bin"} ELSE {})
               \cup (IF StartsWith(u, <<"0", "o">>) THEN {"number_oct"} ELSE {})
               \cup (IF StartsWith(u, <<".">>) \/ EndsWith(u, <<".">>)
                     THEN {"number_lax_dec_point"} ELSE {})
         [] pair.rule \in {"array", "object"} ->
               UNION {Uses(inner[k]) : k \in 1..Len(inner)}
               \cup (IF \E c \in 1..Len(inner) :
                          inner[c].rule = "comma" /\ NextItem(inner, c) = 0
                     THEN {"comma_trailing"} ELSE {})
               \cup (IF \E i \in items :
                          /\ IsValueAt(pair, i)
                          /\ NextItem(inner, i) # 0
                          /\ ~\E c \in i..NextItem(inner, i) : inner[c].rule = "comma"
                     THEN {"comma_optional"} ELSE {})
         [] OTHER -> {}

\* C4: under every preset a text is rejected with an error iff the flag of
\* some extension it uses is off in the preset.
C4_DialectGating ==
    (tstage = "parsed" /\ tval = NoValue) =>
        (tres.ok <=> \A f \in Uses(tsrc) : Preset(tflags)[f])

ScalarKinds == {"String", "StaticStr", "Boolean", "Int", "Float"}

\* the member m of a Mapping is a Fragment with exactly two value-bearing
\* children, the first of them a scalar
IsKeyValue(m) ==
    /\ m.kind = "Fragment"
    /\ Len(FilterHasValue(m.kids)) = 2
    /\ FilterHasValue(m.kids)[1].kind \in ScalarKinds

\* C5 as stated: every child of every Mapping is a Fragment with exactly
\* two value-bearing children, the key first and the value second, and the
\* key is a scalar.
RECURSIVE MappingsStrict(_)
MappingsStrict(d) ==
    /\ d.kind = "Mapping" => \A k \in 1..Len(d.kids) : IsKeyValue(d.kids[k])
    /\ \A k \in 1..Len(d.kids) : MappingsStrict(d.kids[k])

\* as amended: the last child of a Mapping may be a Fragment of comments
RECURSIVE MappingsLoose(_)
MappingsLoose(d) ==
    /\ d.kind = "Mapping" =>
          \A k \in 1..Len(d.kids) :
              \/ IsKeyValue(d.kids[k])
              \/ /\ k = Len(d.kids)
                 /\ d.kids[k].kind = "Fragment"
                 /\ d.kids[k].kids # <<>>
                 /\ \A c \in 1..Len(d.kids[k].kids) : d.kids[k].kids[c].kind = "Comment"
    /\ \A k \in 1..Len(d.kids) : MappingsLoose(d.kids[k])

\* C5 (original statement), over the parser's and the serializer's output
C5_MappingMembers ==
    /\ (tstage = "parsed" /\ tres.ok) => MappingsStrict(tres.doc)
    /\ MappingsStrict(tdoc)

\* every child of every Mapping is a Fragment with exactly two
\* value-bearing children
RECURSIVE MappingsPaired(_)
MappingsPaired(d) ==
    /\ d.kind = "Mapping" =>
          \A k \in 1..Len(d.kids) :
              d.kids[k].kind = "Fragment" /\ Len(FilterHasValue(d.kids[k].kids)) = 2
    /\ \A k \in 1..Len(d.kids) : MappingsPaired(d.kids[k])

\* C5 (amended): in every Document the parser accepts, every child of every
\* Mapping is a Fragment with exactly two value-bearing children, key first
\* (a scalar) and value second, except that the last child may be a
\* Fragment holding only comments; in every Document serialize returns,
\* every child of every Mapping has exactly the two, and the key is a
\* scalar when the value serialized is not a map.
C5_MappingMembersOrComments ==
    /\ (tstage = "parsed" /\ tres.ok) => MappingsLoose(tres.doc)
    /\ MappingsPaired(tdoc)
    /\ tval.t # "map" => MappingsStrict(tdoc)

\* C5 witness: an accepted object whose member holds a comment, the key
\* and the value.
C5_Witness ==
    /\ TypedAccepted
    /\ tsrc.rule = "object"
    /\ Len(tres.doc.kids) = 1
    /\ Len(tres.doc.kids[1].kids) = 3
    /\ tres.doc.kids[1].kids[1].kind = "Comment"
    /\ IsKeyValue(tres.doc.kids[1])

\* a hand-written array or object has been parsed
TypedParsed ==
    /\ tstage = "parsed"
    /\ tval = NoValue
    /\ tsrc.rule \in {"array", "object"}

\* two consecutive elements of the aggregate (members, in an object) have
\* no comma between them
MissingComma(agg) ==
    \E i \in ItemPositions(agg.inner) :
        /\ IsValueAt(agg, i)
        /\ NextItem(agg.inner, i) # 0
        /\ ~\E c \in i..NextItem(agg.inner, i) : agg.inner[c].rule = "comma"

\* a comma stands after the last element of the aggregate
TrailingComma(agg) ==
    \E c \in 1..Len(agg.inner) :
        /\ agg.inner[c].rule = "comma"
        /\ PrevItem(agg.inner, c) # 0
        /\ NextItem(agg.inner, c) = 0

\* a comma stands before the first element of the aggregate
LeadingComma(agg) ==
    \E c \in 1..Len(agg.inner) :
        /\ agg.inner[c].rule = "comma"
        /\ PrevItem(agg.inner, c) = 0

\* two consecutive elements of the aggregate have more than one comma
\* between them
DoubleComma(agg) ==
    \E i \in ItemPositions(agg.inner) :
        /\ IsValueAt(agg, i)
        /\ NextItem(agg.inner, i) # 0
        /\ Cardinality({c \in i..NextItem(agg.inner, i) :
                            agg.inner[c].rule = "comma"}) > 1

\* apart from the flag f, the parser allows everything the text uses
AllowedBut(f) == \A g \in Uses(tsrc) \ {f} : Preset(tflags)[g]

\* C24 (as stated): with comma_optional off an array or object, with
\* comments in any position, is accepted iff every two consecutive elements
\* have a comma between them; with comma_optional on the comma may be left
\* out.  (The elements that are arrays hold one element.)
C24_CommaOptional ==
    (TypedParsed /\ AllowedBut("comma_optional")) =>
        IF Preset(tflags)["comma_optional"] THEN tres.ok
        ELSE tres.ok <=> ~MissingComma(tsrc)

\* C25 (as stated): with comma_trailing off an array or object is rejected
\* iff a comma stands after its last element, and the error for a trailing
\* comma is never given for a comma between two elements, wherever the
\* comments are.
C25_CommaTrailing ==
    (TypedParsed /\ ~Preset(tflags)["comma_trailing"]) =>
        /\ AllowedBut("comma_trailing") => (tres.ok <=> ~TrailingComma(tsrc))
        /\ (~tres.ok /\ tres.err = "no comma expected") => TrailingComma(tsrc)

\* a Mapping of key/value entries and comment entries, in Compact or not,
\* has been written as JSON, JSON5 or HJSON
EntriesEmitted ==
    /\ estage = "emitted"
    /\ ejson.kind = "json"
    /\ \E m \in {ejson.document} \cup
                 (IF ejson.document.kind = "Compact" THEN {ejson.document.kids[1]}
                  ELSE {}) :
          /\ m.kind = "Mapping"
          /\ Len(m.kids) > 1
          /\ \A k \in DOMAIN m.kids : IsCommentEntry(m.kids[k]) \/ AsKv(m.kids[k]).ok

\* C27 (as stated): for every Mapping the JSON-family emitter writes
\* exactly one "," between two consecutive key/value entries and none
\* before the first or after the last key/value entry, wherever the comment
\* entries stand (first, between entries or last) and whether the comments
\* are printed or suppressed (comment syntax None, or compact mode).
C27_MappingSeparators ==
    EntriesEmitted =>
        /\ eout.ok
        /\ Len(eout.toks) = 1
        /\ eout.toks[1].rule = "object"
        /\ ~MissingComma(eout.toks[1])
        /\ ~DoubleComma(eout.toks[1])
        /\ ~LeadingComma(eout.toks[1])
        /\ ~TrailingComma(eout.toks[1])

RECURSIVE WellQuoted(_)
\* the body of a literal in double quotes: every double quote in it stands
\* after a backslash that escapes it
WellQuoted(body) ==
    IF body = <<>> THEN TRUE
    ELSE IF Head(body) = BS THEN Len(body) >= 2 /\ WellQuoted(SubSeq(body, 3, Len(body)))
    ELSE Head(body) # DQ /\ WellQuoted(Tail(body))

\* the text written for a string value is there
StringEmitted ==
    /\ tval.t = "str"
    /\ tdoc.fmt = "Standard"
    /\ tstage \in {"emitted", "parsed", "deserialized"}

\* C28 (as stated): for every string s, over characters that include the
\* double quote, the backslash, newline, tab, carriage return, backspace,
\* form feed and other control characters below 0x20, the text the
\* JSON-family emitter writes for String(s, Standard) is one double-quoted
\* literal that holds no raw control character, and the parser of the
\* strict json dialect reads it as a String whose text is s.
C28_StringEscaping ==
    StringEmitted =>
        /\ tsrc.rule = "string"
        /\ Len(tsrc.text) >= 2
        /\ Head(tsrc.text) = DQ /\ tsrc.text[Len(tsrc.text)] = DQ
        /\ WellQuoted(SubSeq(tsrc.text, 2, Len(tsrc.text) - 1))
        /\ \A k \in DOMAIN tsrc.text : tsrc.text[k] \notin DOMAIN ControlCode
        /\ (tstage = "parsed" /\ tflags = "json") =>
               (tres.ok /\ tres.doc.kind = "String" /\ tres.doc.text = tval.s)

\* the kinds of value the round trip is claimed for
RoundTripKinds == {"bool", "int", "str", "option", "seq", "struct"} \cup VariantKinds

\* C1: for every user value V (bool, integer, string, option, sequence,
\* struct, enum variant) the text the JSON, JSON5 or HJSON emitter writes
\* for serialize(V) is written without error, is accepted by the parser
\* (of the same dialect, or the permissive one) and deserializes into a
\* value equal to V.
C1_RoundTrip ==
    (tval.t \in RoundTripKinds /\ tflags \in {tdialect, "default"}) =>
        /\ tstage # "emit_failed"
        /\ tstage = "parsed" => tres.ok
        /\ tstage = "deserialized" => (tback.ok /\ tback.v = tval)

====
